---- MODULE Spec2Model ----
(***************************************************************************)
(* A model of github.com/fpawel/slogx.                                     *)
(*                                                                         *)
(* Part 1: package slogctx (the slice-based implementation): the carrier   *)
(* of log fields bound to a context.Context, the functions that derive new *)
(* contexts from it (WithValues, WithUniqueValues, WithoutKeys,            *)
(* WithoutAllKeys), the accessors (GetFirstValue, HasKey) and the          *)
(* Handler that copies the carrier into every record.                      *)
(*                                                                         *)
(* Go slices are modelled as headers (arr, len, cap) over a heap of        *)
(* backing arrays, so that aliasing between a context and the contexts     *)
(* derived from it is something the model can exhibit.                     *)
(***************************************************************************)
EXTENDS Integers, Sequences, FiniteSets, TLC

\* ------------------------------------------------------------------ bounds
\* contexts derived from context.Background() in one run
MaxCtx == 2
\* arguments in one argument list of WithValues / WithUniqueValues
MaxArgs == 4
\* keys in one argument list of WithoutKeys
MaxKeys == 2
\* goroutines that use one parent context at the same time
NProcs == 2
\* arguments in one argument list of a concurrent WithValues / WithUniqueValues
MaxConcArgs == 2
\* WithAttrs / WithGroup calls behind one handler
MaxScope == 2
\* WithAttrs / WithGroup calls behind one ObservedHandler
MaxDerived == 1
\* calls of Handle and Logs one goroutine makes
MaxCalls == 2

VARIABLES
    ctxs,   \* the context values built so far; a context is its index, 0 is the nil Context
    heap,   \* the backing arrays of the live []field slices
    last,   \* the most recent call: its inputs and what it returned
    procs,  \* the goroutines that share a parent context: where each is in its call
    handler, \* the slog.Handler the logging code holds
    state,  \* the observedState the ObservedHandlers share: its mutex and its logs
    snaps,  \* the slices Logs has returned so far, in the order of its calls
    handlers \* the handlers derived so far from one root, in the order of their derivation

vars == <<ctxs, heap, last, procs, handler, state, snaps, handlers>>

\* ------------------------------------------------------------ values (any)
\* A Go value of type any: its dynamic type and its payload.
StrVal(s) == [typ |-> "string", str |-> s, num |-> 0]
IntVal(n) == [typ |-> "int", str |-> "", num |-> n]
NilVal == [typ |-> "nil", str |-> "", num |-> 0]

\* key, ok := args[i].(string)
AssertString(a) ==
    [ok |-> a.typ = "string", key |-> IF a.typ = "string" THEN a.str ELSE ""]

\* The zero value of the struct field{key string; val any}.
ZeroField == [key |-> "", val |-> NilVal]

\* ------------------------------------------------------- slices and arrays
\* var s []field
NilSlice == [arr |-> 0, len |-> 0, cap |-> 0]

\* make([]field, 0, c)
Make(A, c) ==
    [heap |-> Append(A, [i \in 1..c |-> ZeroField]),
     slice |-> [arr |-> Len(A) + 1, len |-> 0, cap |-> c]]

\* The capacity append gives a slice that has to grow (runtime.growslice for
\* capacities below 256; 32-byte elements fall on a size class up to 16
\* elements, so no rounding applies within the bounds).
GrowCap(oldCap, needed) ==
    IF needed > 2 * oldCap THEN needed ELSE 2 * oldCap

\* s[0], ..., s[len(s)-1]
Elems(A, s) == [i \in 1..s.len |-> A[s.arr][i]]

\* append(s, elems...): in place when the capacity allows, else into a new array
AppendSlice(A, s, elems) ==
    LET k == Len(elems)
        need == s.len + k
    IN  IF k = 0 THEN [heap |-> A, slice |-> s]
        ELSE IF need <= s.cap
        THEN [heap |-> [A EXCEPT ![s.arr] =
                          [i \in 1..s.cap |->
                              IF i > s.len /\ i <= need
                              THEN elems[i - s.len] ELSE @[i]]],
              slice |-> [s EXCEPT !.len = need]]
        ELSE LET c == GrowCap(s.cap, need)
             IN  [heap |-> Append(A,
                              [i \in 1..c |->
                                  IF i <= s.len THEN A[s.arr][i]
                                  ELSE IF i <= need THEN elems[i - s.len]
                                  ELSE ZeroField]),
                  slice |-> [arr |-> Len(A) + 1, len |-> need, cap |-> c]]

\* slices.Clone without the copy: the result aliases the argument
SlicesCloneAlias(A, s) == [heap |-> A, slice |-> s]

\* slices.Clone(s) == append(s[:0:0], s...)
SlicesClone(A, s) ==
    IF s = NilSlice THEN [heap |-> A, slice |-> NilSlice]
    ELSE AppendSlice(A, [arr |-> s.arr, len |-> 0, cap |-> 0], Elems(A, s))

\* Arrays no live slice refers to are collected: of the arrays a call
\* allocated (those after the first n) only the one behind s survives.
Collect(A, n, s) ==
    IF s.arr > n
    THEN [heap |-> SubSeq(A, 1, n) \o <<A[s.arr]>>, slice |-> [s EXCEPT !.arr = n + 1]]
    ELSE [heap |-> SubSeq(A, 1, n), slice |-> s]

\* ---------------------------------------------------------------- contexts
contextKeyFields == "contextKeyFields"

\* the untyped nil stored by context.WithValue(ctx, contextKeyFields, nil)
NilAny == [ptr |-> FALSE, slice |-> NilSlice]
\* &fieldsData{slice: s}
FieldsData(s) == [ptr |-> TRUE, slice |-> s]

\* context.Background()
Background ==
    [kind |-> "background", parent |-> 0, key |-> "", val |-> NilAny, origin |-> "Background"]
BackgroundId == 1

\* a lookup that passes over a nil bound under the key and goes on to the parent
RECURSIVE CtxValueSkipNil(_, _, _)
CtxValueSkipNil(cs, c, key) ==
    IF cs[c].kind = "background" THEN NilAny
    ELSE IF cs[c].key = key /\ cs[c].val # NilAny THEN cs[c].val
    ELSE CtxValueSkipNil(cs, cs[c].parent, key)

\* ctx.Value(key): the value of the nearest valueCtx of the chain with that key
RECURSIVE CtxValue(_, _, _)
CtxValue(cs, c, key) ==
    IF cs[c].kind = "background" THEN NilAny
    ELSE IF cs[c].key = key THEN cs[c].val
    ELSE CtxValue(cs, cs[c].parent, key)

\* context.WithValue(parent, key, val); origin records the deriving function
NewCtx(cs, parent, val, origin) ==
    Append(cs, [kind |-> "value", parent |-> parent, key |-> contextKeyFields,
                val |-> val, origin |-> origin])

\* What a call returns: the contexts and arrays after it, the context it
\* returned (res), and whether it ended in a runtime panic instead.
Returned(cs, A, res) == [ctxs |-> cs, heap |-> A, res |-> res, fault |-> FALSE]
Panicked(cs, A) == [ctxs |-> cs, heap |-> A, res |-> 0, fault |-> TRUE]

\* return context.WithValue(ctx, contextKeyFields, &fieldsData{slice: s}),
\* for a call that started with the arrays A0
ReturnFields(cs, A0, A, ctx, s, origin) ==
    LET g == Collect(A, Len(A0), s)
    IN  Returned(NewCtx(cs, ctx, FieldsData(g.slice), origin), g.heap, Len(cs) + 1)

\* a clearing that hands back the context it was given
ReturnNilKeepsBinding(cs, A0, ctx, origin) ==
    IF ctx = 0 THEN Panicked(cs, A0) ELSE Returned(cs, A0, ctx)

\* a clearing that binds a carrier with no field, &fieldsData{}
ReturnNilBindsEmpty(cs, A0, ctx, origin) ==
    IF ctx = 0 THEN Panicked(cs, A0)
    ELSE Returned(NewCtx(cs, ctx, FieldsData(NilSlice), origin), A0, Len(cs) + 1)

\* return context.WithValue(ctx, contextKeyFields, nil)
ReturnNil(cs, A0, ctx, origin) ==
    IF ctx = 0 THEN Panicked(cs, A0)   \* "cannot create context from nil parent"
    ELSE Returned(NewCtx(cs, ctx, NilAny, origin), A0, Len(cs) + 1)

\* -------------------------------------------------------------- WithValues
\* n := len(args); if n%2 != 0 { n-- }, rounding up instead of down
EvenLenUp(n) == IF n % 2 # 0 THEN n + 1 ELSE n

\* n := len(args); if n%2 != 0 { n-- }
EvenLen(n) == IF n % 2 # 0 THEN n - 1 ELSE n

\* the key test without the check for the empty string
KeyAcceptedAnyString(k) == k.ok

\* the negation of  !ok || key == ""  : the pair is kept
KeyAccepted(k) == k.ok /\ k.key # ""

\* the loop with break in the place of continue
RECURSIVE ParseArgsBreak(_, _, _, _, _)
ParseArgsBreak(A, nf, args, n, i) ==
    IF ~(i + 1 < n) THEN [heap |-> A, slice |-> nf, fault |-> FALSE]
    ELSE IF i + 2 > Len(args) THEN [heap |-> A, slice |-> nf, fault |-> TRUE]
    ELSE LET k == AssertString(args[i + 1])
         IN  IF ~KeyAccepted(k) THEN [heap |-> A, slice |-> nf, fault |-> FALSE]
             ELSE LET r == AppendSlice(A, nf, <<[key |-> k.key, val |-> args[i + 2]]>>)
                  IN  ParseArgsBreak(r.heap, r.slice, args, n, i + 2)

\* for i := 0; i+1 < n; i += 2 { ... newFields = append(newFields, field{...}) }
\* (i counts from 0 as in the source; args is indexed from 1 here, and an index
\* past the end of args is Go's index-out-of-range panic)
RECURSIVE ParseArgs(_, _, _, _, _)
ParseArgs(A, nf, args, n, i) ==
    IF ~(i + 1 < n) THEN [heap |-> A, slice |-> nf, fault |-> FALSE]
    ELSE IF i + 2 > Len(args) THEN [heap |-> A, slice |-> nf, fault |-> TRUE]
    ELSE LET k == AssertString(args[i + 1])
         IN  IF ~KeyAccepted(k) THEN ParseArgs(A, nf, args, n, i + 2)
             ELSE LET r == AppendSlice(A, nf, <<[key |-> k.key, val |-> args[i + 2]]>>)
                  IN  ParseArgs(r.heap, r.slice, args, n, i + 2)

\* combined := append(newFields, p.slice...): the new fields put first
CombinePrepend(A, ps, nf) ==
    LET c == SlicesClone(A, nf)
    IN  AppendSlice(c.heap, c.slice, Elems(c.heap, ps))

\* combined := append(slices.Clone(p.slice), newFields...)
Combine(A, ps, nf) ==
    LET c == SlicesClone(A, ps)
    IN  AppendSlice(c.heap, c.slice, Elems(c.heap, nf))

\* a WithValues without the early return for a batch with no valid pair
WithValuesBindsEmptyBatch(cs, A0, ctx0, args) ==
    LET ctx == IF ctx0 = 0 THEN BackgroundId ELSE ctx0
        n == EvenLen(Len(args))
    IN  IF n = 0 THEN Returned(cs, A0, ctx)
        ELSE
        LET m == Make(A0, n \div 2)
            nf == ParseArgs(m.heap, m.slice, args, n, 0)
            p == CtxValue(cs, ctx, contextKeyFields)
        IN  IF nf.fault THEN Panicked(cs, A0)
            ELSE IF ~p.ptr \/ p.slice.len = 0
            THEN ReturnFields(cs, A0, nf.heap, ctx, nf.slice, "WithValues")
            ELSE LET r == Combine(nf.heap, p.slice, nf.slice)
                 IN  ReturnFields(cs, A0, r.heap, ctx, r.slice, "WithValues")

WithValues(cs, A0, ctx0, args) ==
    LET ctx == IF ctx0 = 0 THEN BackgroundId ELSE ctx0
        n == EvenLen(Len(args))
    IN  IF n = 0 THEN Returned(cs, A0, ctx)
        ELSE
        LET m == Make(A0, n \div 2)
            nf == ParseArgs(m.heap, m.slice, args, n, 0)
            p == CtxValue(cs, ctx, contextKeyFields)
        IN  IF nf.fault THEN Panicked(cs, A0)
            ELSE IF nf.slice.len = 0 THEN Returned(cs, A0, ctx)
            ELSE IF ~p.ptr \/ p.slice.len = 0
            THEN ReturnFields(cs, A0, nf.heap, ctx, nf.slice, "WithValues")
            ELSE LET r == Combine(nf.heap, p.slice, nf.slice)
                 IN  ReturnFields(cs, A0, r.heap, ctx, r.slice, "WithValues")

\* -------------------------------------------------------- WithUniqueValues
\* the loop with replaceSet holding only the key it met last
RECURSIVE ParseArgsUniqueLastKey(_, _, _, _, _, _)
ParseArgsUniqueLastKey(A, nf, rs, args, n, i) ==
    IF ~(i + 1 < n) THEN [heap |-> A, slice |-> nf, replaceSet |-> rs, fault |-> FALSE]
    ELSE IF i + 2 > Len(args)
    THEN [heap |-> A, slice |-> nf, replaceSet |-> rs, fault |-> TRUE]
    ELSE LET k == AssertString(args[i + 1])
         IN  IF ~KeyAccepted(k) THEN ParseArgsUniqueLastKey(A, nf, rs, args, n, i + 2)
             ELSE LET r == AppendSlice(A, nf, <<[key |-> k.key, val |-> args[i + 2]]>>)
                  IN  ParseArgsUniqueLastKey(r.heap, r.slice, {k.key}, args, n, i + 2)

\* for i := 0; i+1 < n; i += 2 { ... replaceSet[key] = struct{}{};
\*                                   newFields = append(newFields, field{...}) }
RECURSIVE ParseArgsUnique(_, _, _, _, _, _)
ParseArgsUnique(A, nf, rs, args, n, i) ==
    IF ~(i + 1 < n) THEN [heap |-> A, slice |-> nf, replaceSet |-> rs, fault |-> FALSE]
    ELSE IF i + 2 > Len(args)
    THEN [heap |-> A, slice |-> nf, replaceSet |-> rs, fault |-> TRUE]
    ELSE LET k == AssertString(args[i + 1])
         IN  IF ~KeyAccepted(k) THEN ParseArgsUnique(A, nf, rs, args, n, i + 2)
             ELSE LET r == AppendSlice(A, nf, <<[key |-> k.key, val |-> args[i + 2]]>>)
                  IN  ParseArgsUnique(r.heap, r.slice, rs \cup {k.key}, args, n, i + 2)

\* the test of the loop below when no existing field is ever replaced
ReplacedNever(f, replaceSet) == FALSE

\* _, replace := replaceSet[f.key]
Replaced(f, replaceSet) == f.key \in replaceSet

\* for _, f := range existing { if !replace { result = append(result, f) } }
RECURSIVE KeepUnreplaced(_, _, _, _, _)
KeepUnreplaced(A, result, existing, replaceSet, i) ==
    IF i > existing.len THEN [heap |-> A, slice |-> result]
    ELSE LET f == A[existing.arr][i]
         IN  IF Replaced(f, replaceSet)
             THEN KeepUnreplaced(A, result, existing, replaceSet, i + 1)
             ELSE LET r == AppendSlice(A, result, <<f>>)
                  IN  KeepUnreplaced(r.heap, r.slice, existing, replaceSet, i + 1)

WithUniqueValues(cs, A0, ctx0, args) ==
    LET ctx == IF ctx0 = 0 THEN BackgroundId ELSE ctx0
        n == EvenLen(Len(args))
    IN  IF n = 0 THEN Returned(cs, A0, ctx)
        ELSE
        LET m == Make(A0, n \div 2)
            nf == ParseArgsUnique(m.heap, m.slice, {}, args, n, 0)
            p == CtxValue(cs, ctx, contextKeyFields)
            existing == IF p.ptr /\ p.slice.len > 0 THEN p.slice ELSE NilSlice
            res0 == Make(nf.heap, existing.len + nf.slice.len)
            result == KeepUnreplaced(res0.heap, res0.slice, existing, nf.replaceSet, 1)
            combined == AppendSlice(result.heap, result.slice, Elems(result.heap, nf.slice))
        IN  IF nf.fault THEN Panicked(cs, A0)
            ELSE IF nf.slice.len = 0 THEN Returned(cs, A0, ctx)
            ELSE ReturnFields(cs, A0, combined.heap, ctx, combined.slice, "WithUniqueValues")

\* ---------------------------------------------------------- WithoutAllKeys
\* a WithoutAllKeys that binds nil under another key than contextKeyFields
WithoutAllKeysOtherKey(cs, A0, ctx) ==
    IF ctx = 0 THEN Panicked(cs, A0)
    ELSE Returned(Append(cs, [kind |-> "value", parent |-> ctx, key |-> "otherKey",
                              val |-> NilAny, origin |-> "WithoutAllKeys"]),
                  A0, Len(cs) + 1)

WithoutAllKeys(cs, A0, ctx) == ReturnNil(cs, A0, ctx, "WithoutAllKeys")

\* ------------------------------------------------------------- WithoutKeys
\* for _, k := range keys { keySet[k] = struct{}{} }
KeySet(keys) == {keys[i] : i \in 1..Len(keys)}

\* the loop below leaving out only the first field with a listed key
RECURSIVE KeepUnlistedFirstOnly(_, _, _, _, _)
KeepUnlistedFirstOnly(A, result, src, keySet, i) ==
    IF i > src.len THEN [heap |-> A, slice |-> result]
    ELSE LET f == A[src.arr][i]
         IN  IF f.key \in keySet
             THEN KeepUnlistedFirstOnly(A, result, src, keySet \ {f.key}, i + 1)
             ELSE LET r == AppendSlice(A, result, <<f>>)
                  IN  KeepUnlistedFirstOnly(r.heap, r.slice, src, keySet, i + 1)

\* for _, f := range p.slice { if _, skip := keySet[f.key]; !skip { result = append(result, f) } }
RECURSIVE KeepUnlisted(_, _, _, _, _)
KeepUnlisted(A, result, src, keySet, i) ==
    IF i > src.len THEN [heap |-> A, slice |-> result]
    ELSE LET f == A[src.arr][i]
         IN  IF f.key \in keySet
             THEN KeepUnlisted(A, result, src, keySet, i + 1)
             ELSE LET r == AppendSlice(A, result, <<f>>)
                  IN  KeepUnlisted(r.heap, r.slice, src, keySet, i + 1)

\* result := p.slice[:0], the filter-in-place idiom
ResultInPlace(A, ps) == [heap |-> A, slice |-> [ps EXCEPT !.len = 0]]

\* result := make([]field, 0, len(p.slice))
ResultBuffer(A, ps) == Make(A, ps.len)

WithoutKeys(cs, A0, ctx, keys) ==
    IF ctx = 0 \/ Len(keys) = 0 THEN Returned(cs, A0, ctx)
    ELSE
    LET p == CtxValue(cs, ctx, contextKeyFields)
    IN  IF ~p.ptr \/ p.slice.len = 0 THEN Returned(cs, A0, ctx)
        ELSE
        LET res0 == ResultBuffer(A0, p.slice)
            result == KeepUnlisted(res0.heap, res0.slice, p.slice, KeySet(keys), 1)
        IN  IF result.slice.len = 0
            THEN LET g == Collect(result.heap, Len(A0), NilSlice)
                 IN  ReturnNil(cs, g.heap, ctx, "WithoutKeys")
            ELSE ReturnFields(cs, A0, result.heap, ctx, result.slice, "WithoutKeys")

\* --------------------------------------------------------------- accessors
\* A call on the nil Context is a nil-interface method call: it panics.
Found(v) == [val |-> v, ok |-> TRUE, fault |-> FALSE]
NotFound == [val |-> NilVal, ok |-> FALSE, fault |-> FALSE]
NilDeref == [val |-> NilVal, ok |-> FALSE, fault |-> TRUE]

\* a search that keeps the last field with the key
RECURSIVE FirstMatchLatest(_, _, _, _)
FirstMatchLatest(A, s, key, i) ==
    IF i > s.len THEN NotFound
    ELSE LET rest == FirstMatchLatest(A, s, key, i + 1)
         IN  IF rest.ok THEN rest
             ELSE IF A[s.arr][i].key = key THEN Found(A[s.arr][i].val) ELSE NotFound

\* for _, f := range p.slice { if f.key == key { return f.val, true } }; return nil, false
RECURSIVE FirstMatch(_, _, _, _)
FirstMatch(A, s, key, i) ==
    IF i > s.len THEN NotFound
    ELSE IF A[s.arr][i].key = key THEN Found(A[s.arr][i].val)
    ELSE FirstMatch(A, s, key, i + 1)

GetFirstValue(cs, A, ctx, key) ==
    IF key = "" THEN NotFound
    ELSE IF ctx = 0 THEN NilDeref
    ELSE LET p == CtxValue(cs, ctx, contextKeyFields)
         IN  IF ~p.ptr THEN NotFound
             ELSE FirstMatch(A, p.slice, key, 1)

\* a loop that looks at the first field only
AnyMatchFirstOnly(A, s, key, i) == s.len >= 1 /\ A[s.arr][1].key = key

\* for _, f := range p.slice { if f.key == key { return true } }; return false
RECURSIVE AnyMatch(_, _, _, _)
AnyMatch(A, s, key, i) ==
    IF i > s.len THEN FALSE
    ELSE IF A[s.arr][i].key = key THEN TRUE
    ELSE AnyMatch(A, s, key, i + 1)

HasKey(cs, A, ctx, key) ==
    IF key = "" THEN [ok |-> FALSE, fault |-> FALSE]
    ELSE IF ctx = 0 THEN [ok |-> FALSE, fault |-> TRUE]
    ELSE LET p == CtxValue(cs, ctx, contextKeyFields)
         IN  IF ~p.ptr THEN [ok |-> FALSE, fault |-> FALSE]
             ELSE [ok |-> AnyMatch(A, p.slice, key, 1), fault |-> FALSE]

\* ----------------------------------------------------------------- Handler
\* slog.Any(key, val): the value becomes a slog.Value of the matching kind
\* (an int is stored as KindInt64, a string as KindString)
AnyValue(v) ==
    IF v.typ = "string" THEN [kind |-> "String", str |-> v.str, num |-> 0]
    ELSE IF v.typ = "int" THEN [kind |-> "Int64", str |-> "", num |-> v.num]
    ELSE [kind |-> "Any", str |-> "", num |-> 0]
SlogAny(key, val) == [key |-> key, value |-> AnyValue(val)]

\* a Handle that puts the context's fields in front of the record's attributes
AddFieldInFront(A, s, record, i) ==
    <<SlogAny(A[s.arr][i].key, A[s.arr][i].val)>> \o record

\* record.AddAttrs(slog.Any(f.key, f.val)) for f = p.slice[i]
AddField(A, s, record, i) ==
    Append(record, SlogAny(A[s.arr][i].key, A[s.arr][i].val))

\* for _, f := range p.slice { record.AddAttrs(slog.Any(f.key, f.val)) }
RECURSIVE AddFields(_, _, _, _)
AddFields(A, s, record, i) ==
    IF i > s.len THEN record
    ELSE AddFields(A, s, AddField(A, s, record, i), i + 1)

\* Handler.Handle: the record handed to the wrapped handler's Handle
Handle(cs, A, ctx, record) ==
    IF ctx = 0 THEN [rec |-> <<>>, fault |-> TRUE]
    ELSE LET p == CtxValue(cs, ctx, contextKeyFields)
         IN  IF p.ptr THEN [rec |-> AddFields(A, p.slice, record, 1), fault |-> FALSE]
             ELSE [rec |-> record, fault |-> FALSE]

\* --------------------------------------------------------- slog.Handler values
\* a nil slog.Handler
NilHandler == [kind |-> "nil"]
\* The handler a Handler wraps (any slog.Handler: JSON, text, observed ...).
\* scope is what its WithAttrs and WithGroup calls have put on it so far.
Sink(scope) == [kind |-> "sink", scope |-> scope]
SinkWithAttrs(h, attrs) == Sink(Append(h.scope, [group |-> "", attrs |-> attrs]))
SinkWithGroup(h, name) == Sink(Append(h.scope, [group |-> name, attrs |-> <<>>]))
\* the nil error
NoError == "nil"

\* What a method call on a handler comes to: the handler it returned (out),
\* the handler whose Handle got the record (to) and the record it got (rec),
\* the value it returned (err, ok), or a runtime panic (fault).
NoResult ==
    [out |-> NilHandler, to |-> NilHandler, rec |-> <<>>, err |-> NoError, ok |-> FALSE,
     fault |-> FALSE]
\* calling a method of a nil slog.Handler: nil pointer dereference
NilCall == [NoResult EXCEPT !.fault = TRUE]

\* the wrapped handler's own methods; what its Handle and Enabled return is its business
SinkHandle(h, record, sinkErr) == [NoResult EXCEPT !.to = h, !.rec = record, !.err = sinkErr]
SinkEnabled(h, sinkOk) == [NoResult EXCEPT !.ok = sinkOk]

\* ------------------------------------------------ Handler (slice-based package)
\* NewHandler(handler): Handler{Handler: handler}
NewHandler(h) == [kind |-> "Handler", Handler |-> h]

\* an Enabled that answers false for a Handler without a wrapped handler
HandlerEnabledNilAsDisabled(h, sinkOk) ==
    IF h.Handler.kind = "nil" THEN NoResult ELSE SinkEnabled(h.Handler, sinkOk)

\* h.Handler.Enabled(ctx, level)
HandlerEnabled(h, sinkOk) ==
    IF h.Handler.kind = "nil" THEN NilCall ELSE SinkEnabled(h.Handler, sinkOk)

\* a Handle that reports success whatever the wrapped handler returned
DelegateDropError(h, record, sinkErr) ==
    IF h.Handler.kind = "nil" THEN NilCall
    ELSE [SinkHandle(h.Handler, record, sinkErr) EXCEPT !.err = NoError]

\* return h.Handler.Handle(ctx, record)
Delegate(h, record, sinkErr) ==
    IF h.Handler.kind = "nil" THEN NilCall
    ELSE SinkHandle(h.Handler, record, sinkErr)

\* Handler.Handle as a whole
HandlerHandle(cs, A, h, ctx, record, sinkErr) ==
    LET r == Handle(cs, A, ctx, record)
    IN  IF r.fault THEN NilCall ELSE Delegate(h, r.rec, sinkErr)

\* Handler{h.Handler.WithAttrs(attrs)}
HandlerWithAttrs(h, attrs) ==
    IF h.Handler.kind = "nil" THEN NilCall
    ELSE [NoResult EXCEPT !.out = NewHandler(SinkWithAttrs(h.Handler, attrs))]

\* a WithGroup that hands out the wrapped handler's result as it is
HandlerWithGroupBare(h, name) ==
    IF h.Handler.kind = "nil" THEN NilCall
    ELSE [NoResult EXCEPT !.out = SinkWithGroup(h.Handler, name)]

\* Handler{Handler: h.Handler.WithGroup(name)}
HandlerWithGroup(h, name) ==
    IF h.Handler.kind = "nil" THEN NilCall
    ELSE [NoResult EXCEPT !.out = NewHandler(SinkWithGroup(h.Handler, name))]

\* ---------------------------------------------- package slogctx with a sync.Map
keyFields == "slog_fields"
\* a *sync.Map: the map is heap cell m, a sequence of entries with distinct keys
MapPtr(m) == [ptr |-> TRUE, map |-> m]

\* (*sync.Map).Store(k, v)
MapStore(entries, k, v) ==
    IF \E i \in 1..Len(entries) : entries[i].key = k
    THEN [i \in 1..Len(entries) |->
            IF entries[i].key = k THEN [key |-> k, val |-> v] ELSE entries[i]]
    ELSE Append(entries, [key |-> k, val |-> v])

\* for i := 0; i < len(args); i += 2 { v.Store(args[i], args[i+1]) }
RECURSIVE MapStoreArgs(_, _, _, _)
MapStoreArgs(A, m, args, i) ==
    IF i > Len(args) THEN [heap |-> A, fault |-> FALSE]
    ELSE IF i + 1 > Len(args) THEN [heap |-> A, fault |-> TRUE]   \* index out of range
    ELSE MapStoreArgs([A EXCEPT ![m] = MapStore(@, args[i], args[i + 1])], m, args, i + 2)

\* WithValues of the sync.Map package
MapWithValues(cs, A0, ctx, args) ==
    IF ctx = 0 THEN Panicked(cs, A0)   \* panic("cannot create context from nil parent")
    ELSE LET v == CtxValue(cs, ctx, keyFields)
             A1 == IF v.ptr THEN A0 ELSE Append(A0, <<>>)
             m == IF v.ptr THEN v.map ELSE Len(A1)
             r == MapStoreArgs(A1, m, args, 1)
         IN  IF r.fault
             THEN \* the pairs before the panic are stored in the map that was
                  \* bound; a map made by this call is garbage
                  Panicked(cs, IF v.ptr THEN r.heap ELSE A0)
             ELSE Returned(Append(cs, [kind |-> "value", parent |-> ctx, key |-> keyFields,
                                       val |-> MapPtr(m), origin |-> "MapWithValues"]),
                           r.heap, Len(cs) + 1)

\* NewHandler of the sync.Map package
MapNewHandler(h) == [kind |-> "MapHandler", Handler |-> h]

\* v.Range(func(key, val any) bool { ... record.AddAttrs(slog.Any(keyString, val)) ... }),
\* which visits the entries in the order Range happens to take (order)
RECURSIVE MapRange(_, _, _, _)
MapRange(entries, order, record, i) ==
    IF i > Len(order) THEN record
    ELSE LET e == entries[order[i]]
             k == AssertString(e.key)
         IN  MapRange(entries, order,
                      IF k.ok THEN Append(record, SlogAny(k.key, e.val)) ELSE record, i + 1)

\* Handler.Handle of the sync.Map package
MapHandlerHandle(cs, A, h, ctx, record, order, sinkErr) ==
    IF ctx = 0 THEN NilCall
    ELSE LET v == CtxValue(cs, ctx, keyFields)
             rec == IF v.ptr THEN MapRange(A[v.map], order, record, 1) ELSE record
         IN  IF h.Handler.kind = "nil" THEN NilCall
             ELSE SinkHandle(h.Handler, rec, sinkErr)

MapHandlerEnabled(h, sinkOk) ==
    IF h.Handler.kind = "nil" THEN NilCall ELSE SinkEnabled(h.Handler, sinkOk)

\* Handler{h.Handler.WithAttrs(attrs)}
MapHandlerWithAttrs(h, attrs) ==
    IF h.Handler.kind = "nil" THEN NilCall
    ELSE [NoResult EXCEPT !.out = MapNewHandler(SinkWithAttrs(h.Handler, attrs))]

\* return h.Handler.WithGroup(name)
MapHandlerWithGroup(h, name) ==
    IF h.Handler.kind = "nil" THEN NilCall
    ELSE [NoResult EXCEPT !.out = SinkWithGroup(h.Handler, name)]

\* ------------------------------------------------- slogtest.ObservedHandler
\* &observedState{}: the mutex is free (mu = 0, else the goroutine holding it), logs is nil
NewObservedState == [mu |-> 0, logs |-> NilSlice]
\* NewObservedHandler(): no attributes, no groups (the state is the shared one)
NewObservedHandler == [attrs |-> <<>>, groups |-> <<>>]

\* ObservedHandler.WithAttrs: attrs: append(append([]slog.Attr{}, h.attrs...), attrs...)
ObservedHandlerWithAttrs(h, attrs) == [h EXCEPT !.attrs = @ \o attrs]
\* ObservedHandler.WithGroup: groups: append(append([]string{}, h.groups...), name)
ObservedHandlerWithGroup(h, name) == [h EXCEPT !.groups = Append(@, name)]

\* ObservedLog{Level, Message, Attrs: combinedAttrs, Groups: append([]string{}, h.groups...)};
\* id stands for the record's level and message
ObservedLog(h, id, recordAttrs) ==
    [id |-> id, attrs |-> h.attrs \o recordAttrs, groups |-> h.groups]

\* a Lock that does not wait for the mutex
MutexFreeAlways(mu) == TRUE

\* h.state.mu.Lock() goes on when the mutex is free
MutexFree(mu) == mu = 0

\* a Logs that returns the buffer itself
LogsCopyAlias(A, logs) == [heap |-> A, slice |-> logs]

\* append([]ObservedLog(nil), h.state.logs...)
LogsCopy(A, logs) == AppendSlice(A, NilSlice, Elems(A, logs))

\* ------------------------------------------------------------------ inputs
\* What a caller may put in a key position: two keys, the empty string, a non-string.
KeyArgs == {StrVal("a"), StrVal("b"), StrVal(""), IntVal(0)}

\* The values are opaque to the package: the j-th value of the call made when
\* k contexts exist is a token of its own.
ValArg(k, j) == IntVal(10 * k + j)

KeySeqs(m) == UNION {[1..n -> KeyArgs] : n \in 0..m}

\* "k1", v1, "k2", v2, ...
Pairs(ks, k) ==
    [i \in 1..(2 * Len(ks)) |-> IF i % 2 = 1 THEN ks[(i + 1) \div 2] ELSE ValArg(k, i \div 2)]

\* the unpaired argument a list of odd length ends with
Trailing == StrVal("b")

\* the argument lists of WithValues and WithUniqueValues, of even and of odd length
ArgListsUpTo(m, k) ==
    {Pairs(ks, k) : ks \in KeySeqs(m \div 2)}
        \cup {Pairs(ks, k) \o <<Trailing>> : ks \in KeySeqs((m - 1) \div 2)}
ArgLists(k) == ArgListsUpTo(MaxArgs, k)

Keys == {"a", "b", ""}
KeyLists == UNION {[1..n -> Keys] : n \in 0..MaxKeys}

\* the attributes a record has when it reaches the Handler (those of the call site)
CallSiteAttrs == {<<>>, <<[key |-> "a", value |-> [kind |-> "String", str |-> "site", num |-> 0]]>>}

CtxIds == 0..Len(ctxs)

\* the bound of the model: a call that would exceed it is not made
WithinBounds(r) == Len(r.ctxs) <= MaxCtx + 1

\* The fields a reader finds through context c: those of the carrier that
\* ctx.Value(contextKeyFields) yields, none when it yields no carrier.
FieldsOf(cs, A, c) ==
    IF c = 0 THEN <<>>
    ELSE LET v == CtxValue(cs, c, contextKeyFields)
         IN  IF v.ptr THEN Elems(A, v.slice) ELSE <<>>
Carrier(c) == FieldsOf(ctxs, heap, c)

\* the caller makes one call at a time and then goes on
Idle == last.op = "none"

\* ----------------------------------------------------------------- actions
NoCall ==
    [op |-> "none", ctx |-> 0, args |-> <<>>, keys |-> <<>>, key |-> "",
     attrs |-> <<>>, pre |-> <<>>, res |-> 0, val |-> NilVal, ok |-> FALSE,
     rec |-> <<>>, fault |-> FALSE,
     recv |-> NilHandler, out |-> NilHandler, to |-> NilHandler, err |-> NoError, sinkErr |-> NoError]

CallWithValues ==
    /\ Idle
    /\ \E ctx \in CtxIds, args \in ArgLists(Len(ctxs)) :
          LET r == WithValues(ctxs, heap, ctx, args)
          IN  /\ WithinBounds(r)
              /\ ctxs' = r.ctxs
              /\ heap' = r.heap
              /\ last' = [NoCall EXCEPT !.op = "WithValues", !.ctx = ctx, !.pre = Carrier(ctx), !.args = args,
                                        !.res = r.res, !.fault = r.fault]
    /\ UNCHANGED <<procs, handler, state, snaps, handlers>>

CallWithUniqueValues ==
    /\ Idle
    /\ \E ctx \in CtxIds, args \in ArgLists(Len(ctxs)) :
          LET r == WithUniqueValues(ctxs, heap, ctx, args)
          IN  /\ WithinBounds(r)
              /\ ctxs' = r.ctxs
              /\ heap' = r.heap
              /\ last' = [NoCall EXCEPT !.op = "WithUniqueValues", !.ctx = ctx, !.pre = Carrier(ctx),
                                        !.args = args, !.res = r.res, !.fault = r.fault]
    /\ UNCHANGED <<procs, handler, state, snaps, handlers>>

CallWithoutKeys ==
    /\ Idle
    /\ \E ctx \in CtxIds, keys \in KeyLists :
          LET r == WithoutKeys(ctxs, heap, ctx, keys)
          IN  /\ WithinBounds(r)
              /\ ctxs' = r.ctxs
              /\ heap' = r.heap
              /\ last' = [NoCall EXCEPT !.op = "WithoutKeys", !.ctx = ctx, !.pre = Carrier(ctx), !.keys = keys,
                                        !.res = r.res, !.fault = r.fault]
    /\ UNCHANGED <<procs, handler, state, snaps, handlers>>

CallWithoutAllKeys ==
    /\ Idle
    /\ \E ctx \in CtxIds :
          LET r == WithoutAllKeys(ctxs, heap, ctx)
          IN  /\ WithinBounds(r)
              /\ ctxs' = r.ctxs
              /\ heap' = r.heap
              /\ last' = [NoCall EXCEPT !.op = "WithoutAllKeys", !.ctx = ctx, !.pre = Carrier(ctx),
                                        !.res = r.res, !.fault = r.fault]
    /\ UNCHANGED <<procs, handler, state, snaps, handlers>>

CallGetFirstValue ==
    /\ Idle
    /\ \E ctx \in CtxIds, key \in Keys :
          LET r == GetFirstValue(ctxs, heap, ctx, key)
          IN  last' = [NoCall EXCEPT !.op = "GetFirstValue", !.ctx = ctx, !.pre = Carrier(ctx), !.key = key,
                                     !.val = r.val, !.ok = r.ok, !.fault = r.fault]
    /\ UNCHANGED <<ctxs, heap, procs, handler, state, snaps, handlers>>

CallHasKey ==
    /\ Idle
    /\ \E ctx \in CtxIds, key \in Keys :
          LET r == HasKey(ctxs, heap, ctx, key)
          IN  last' = [NoCall EXCEPT !.op = "HasKey", !.ctx = ctx, !.pre = Carrier(ctx), !.key = key,
                                     !.ok = r.ok, !.fault = r.fault]
    /\ UNCHANGED <<ctxs, heap, procs, handler, state, snaps, handlers>>

CallHandle ==
    /\ Idle
    /\ \E ctx \in CtxIds, attrs \in CallSiteAttrs :
          LET r == Handle(ctxs, heap, ctx, attrs)
          IN  last' = [NoCall EXCEPT !.op = "Handle", !.ctx = ctx, !.pre = Carrier(ctx), !.attrs = attrs,
                                     !.rec = r.rec, !.fault = r.fault]
    /\ UNCHANGED <<ctxs, heap, procs, handler, state, snaps, handlers>>

\* the caller has used the result of its last call and goes on
Resume ==
    /\ ~Idle
    /\ last' = NoCall
    /\ UNCHANGED <<ctxs, heap, procs, handler, state, snaps, handlers>>

\* a goroutine that has not started its call
NotStarted ==
    [pc |-> "start", op |-> "none", args |-> <<>>, keys |-> <<>>, attrs |-> <<>>,
     p |-> NilAny, i |-> 0, rec |-> <<>>, res |-> 0]

Init ==
    /\ ctxs = <<Background>>
    /\ heap = <<>>
    /\ last = NoCall
    /\ procs = [g \in 1..NProcs |-> NotStarted]
    /\ handler = NewHandler(Sink(<<>>))
    /\ state = NewObservedState
    /\ snaps = <<>>
    /\ handlers = <<>>

Next ==
    \/ CallWithValues
    \/ CallWithUniqueValues
    \/ CallWithoutKeys
    \/ CallWithoutAllKeys
    \/ CallGetFirstValue
    \/ CallHasKey
    \/ CallHandle
    \/ Resume

Spec == Init /\ [][Next]_vars

\* ====================================================================
\* Goroutines sharing one parent context (TestHandlerConcurrent)
\* ====================================================================
\* ctx := WithValues(context.Background(), ...): the parent every goroutine uses
ParentId == 2

ConcArgLists(k) == ArgListsUpTo(MaxConcArgs, k)

\* go logger.ErrorContext(ctx, ...): Handle up to  p, ok := ctx.Value(...).(*fieldsData)
GoHandleValue(g) ==
    /\ procs[g].pc = "start"
    /\ \E attrs \in CallSiteAttrs :
          procs' = [procs EXCEPT ![g] =
                      [@ EXCEPT !.pc = "range", !.op = "Handle", !.attrs = attrs,
                                !.rec = attrs, !.i = 1,
                                !.p = CtxValue(ctxs, ParentId, contextKeyFields)]]
    /\ UNCHANGED <<ctxs, heap, last, handler, state, snaps, handlers>>

\* one iteration of  for _, f := range p.slice { record.AddAttrs(...) }
GoHandleRange(g) ==
    /\ procs[g].pc = "range"
    /\ procs[g].p.ptr
    /\ procs[g].i <= procs[g].p.slice.len
    /\ procs' = [procs EXCEPT ![g] =
                   [@ EXCEPT !.rec = AddField(heap, procs[g].p.slice, @, procs[g].i),
                             !.i = @ + 1]]
    /\ UNCHANGED <<ctxs, heap, last, handler, state, snaps, handlers>>

\* return h.Handler.Handle(ctx, record): rec is what the wrapped handler gets
GoHandleDelegate(g) ==
    /\ procs[g].pc = "range"
    /\ ~procs[g].p.ptr \/ procs[g].i > procs[g].p.slice.len
    /\ procs' = [procs EXCEPT ![g] = [@ EXCEPT !.pc = "done"]]
    /\ UNCHANGED <<ctxs, heap, last, handler, state, snaps, handlers>>

\* a goroutine derives a context from the parent
GoWithValues(g) ==
    /\ procs[g].pc = "start"
    /\ \E args \in ConcArgLists(Len(ctxs)) :
          LET r == WithValues(ctxs, heap, ParentId, args)
          IN  /\ ctxs' = r.ctxs
              /\ heap' = r.heap
              /\ procs' = [procs EXCEPT ![g] =
                             [@ EXCEPT !.pc = "done", !.op = "WithValues", !.args = args,
                                       !.res = r.res]]
    /\ UNCHANGED <<last, handler, state, snaps, handlers>>

GoWithUniqueValues(g) ==
    /\ procs[g].pc = "start"
    /\ \E args \in ConcArgLists(Len(ctxs)) :
          LET r == WithUniqueValues(ctxs, heap, ParentId, args)
          IN  /\ ctxs' = r.ctxs
              /\ heap' = r.heap
              /\ procs' = [procs EXCEPT ![g] =
                             [@ EXCEPT !.pc = "done", !.op = "WithUniqueValues",
                                       !.args = args, !.res = r.res]]
    /\ UNCHANGED <<last, handler, state, snaps, handlers>>

GoWithoutKeys(g) ==
    /\ procs[g].pc = "start"
    /\ \E keys \in KeyLists :
          LET r == WithoutKeys(ctxs, heap, ParentId, keys)
          IN  /\ ctxs' = r.ctxs
              /\ heap' = r.heap
              /\ procs' = [procs EXCEPT ![g] =
                             [@ EXCEPT !.pc = "done", !.op = "WithoutKeys", !.keys = keys,
                                       !.res = r.res]]
    /\ UNCHANGED <<last, handler, state, snaps, handlers>>

\* The parent carries fields: it is what WithValues returns for Background and
\* an argument list with a valid pair; last records that call.
InitConc ==
    \E args \in ArgLists(1) :
        LET r == WithValues(<<Background>>, <<>>, BackgroundId, args)
        IN  /\ r.res = ParentId
            /\ ctxs = r.ctxs
            /\ heap = r.heap
            /\ last = [NoCall EXCEPT !.op = "WithValues", !.ctx = BackgroundId,
                                     !.args = args, !.res = r.res]
            /\ procs = [g \in 1..NProcs |-> NotStarted]
            /\ handler = NewHandler(Sink(<<>>))
            /\ state = NewObservedState
            /\ snaps = <<>>
            /\ handlers = <<>>

NextConc ==
    \E g \in 1..NProcs :
        \/ GoHandleValue(g)
        \/ GoHandleRange(g)
        \/ GoHandleDelegate(g)
        \/ GoWithValues(g)
        \/ GoWithUniqueValues(g)
        \/ GoWithoutKeys(g)

SpecConc == InitConc /\ [][NextConc]_vars

\* ====================================================================
\* The handlers: construction, scoping and use (both slogctx packages)
\* ====================================================================
\* a context each package has put fields on
SliceCtxId == 2
MapCtxId == 3

\* what the wrapped handler's Handle may return
Errors == {NoError, "EIO"}
ScopeAttrs == {<<[key |-> "svc", value |-> [kind |-> "String", str |-> "api", num |-> 0]]>>}
GroupNames == {"g"}
\* the orders in which Range may visit n entries
Orders(n) == {f \in [1..n -> 1..n] : \A i, j \in 1..n : f[i] = f[j] => i = j}
\* the entries of the sync.Map bound to context c
MapEntries(cs, A, c) ==
    IF c = 0 THEN <<>>
    ELSE LET v == CtxValue(cs, c, keyFields) IN IF v.ptr THEN A[v.map] ELSE <<>>

\* calls of the slog.Handler interface go to the method of the value's type
DoEnabled(h, sinkOk) ==
    CASE h.kind = "Handler" -> HandlerEnabled(h, sinkOk)
      [] h.kind = "MapHandler" -> MapHandlerEnabled(h, sinkOk)
      [] h.kind = "sink" -> SinkEnabled(h, sinkOk)
      [] OTHER -> NilCall
DoHandle(cs, A, h, ctx, record, order, sinkErr) ==
    CASE h.kind = "Handler" -> HandlerHandle(cs, A, h, ctx, record, sinkErr)
      [] h.kind = "MapHandler" -> MapHandlerHandle(cs, A, h, ctx, record, order, sinkErr)
      [] h.kind = "sink" -> SinkHandle(h, record, sinkErr)
      [] OTHER -> NilCall
DoWithAttrs(h, attrs) ==
    CASE h.kind = "Handler" -> HandlerWithAttrs(h, attrs)
      [] h.kind = "MapHandler" -> MapHandlerWithAttrs(h, attrs)
      [] h.kind = "sink" -> [NoResult EXCEPT !.out = SinkWithAttrs(h, attrs)]
      [] OTHER -> NilCall
DoWithGroup(h, name) ==
    CASE h.kind = "Handler" -> HandlerWithGroup(h, name)
      [] h.kind = "MapHandler" -> MapHandlerWithGroup(h, name)
      [] h.kind = "sink" -> [NoResult EXCEPT !.out = SinkWithGroup(h, name)]
      [] OTHER -> NilCall

\* the scope of the handler behind h
ScopeOf(h) ==
    IF h.kind = "sink" THEN h.scope
    ELSE IF h.Handler.kind = "nil" THEN <<>> ELSE h.Handler.scope

\* handler := NewHandler(w), of either package, w a handler or nil
CallNewHandler ==
    /\ Idle
    /\ \E w \in {NilHandler, Sink(<<>>)} :
       \E h \in {NewHandler(w), MapNewHandler(w)} :
          /\ handler' = h
          /\ last' = [NoCall EXCEPT !.op = "NewHandler", !.recv = w, !.out = h]
    /\ UNCHANGED <<ctxs, heap, procs, state, snaps, handlers>>

CallEnabled ==
    /\ Idle
    /\ \E sinkOk \in BOOLEAN :
          LET r == DoEnabled(handler, sinkOk)
          IN  last' = [NoCall EXCEPT !.op = "Enabled", !.recv = handler, !.ok = r.ok,
                                     !.fault = r.fault]
    /\ UNCHANGED <<ctxs, heap, procs, handler, state, snaps, handlers>>

\* handler.Handle(ctx, record), as a logger does for every record
CallHandlerHandle ==
    /\ Idle
    /\ \E ctx \in CtxIds, attrs \in CallSiteAttrs, sinkErr \in Errors :
       \E order \in Orders(IF handler.kind = "MapHandler"
                           THEN Len(MapEntries(ctxs, heap, ctx)) ELSE 0) :
          LET r == DoHandle(ctxs, heap, handler, ctx, attrs, order, sinkErr)
          IN  last' = [NoCall EXCEPT !.op = "Handle", !.recv = handler, !.ctx = ctx,
                                     !.pre = Carrier(ctx), !.attrs = attrs,
                                     !.sinkErr = sinkErr, !.to = r.to, !.rec = r.rec,
                                     !.err = r.err, !.fault = r.fault]
    /\ UNCHANGED <<ctxs, heap, procs, handler, state, snaps, handlers>>

\* handler = handler.WithAttrs(attrs)
CallWithAttrs ==
    /\ Idle
    /\ Len(ScopeOf(handler)) < MaxScope
    /\ \E attrs \in ScopeAttrs :
          LET r == DoWithAttrs(handler, attrs)
          IN  /\ handler' = IF r.fault THEN handler ELSE r.out
              /\ last' = [NoCall EXCEPT !.op = "WithAttrs", !.recv = handler, !.attrs = attrs,
                                        !.out = r.out, !.fault = r.fault]
    /\ UNCHANGED <<ctxs, heap, procs, state, snaps, handlers>>

\* handler = handler.WithGroup(name)
CallWithGroup ==
    /\ Idle
    /\ Len(ScopeOf(handler)) < MaxScope
    /\ \E name \in GroupNames :
          LET r == DoWithGroup(handler, name)
          IN  /\ handler' = IF r.fault THEN handler ELSE r.out
              /\ last' = [NoCall EXCEPT !.op = "WithGroup", !.recv = handler, !.key = name,
                                        !.out = r.out, !.fault = r.fault]
    /\ UNCHANGED <<ctxs, heap, procs, state, snaps, handlers>>

\* Each package has put the same arguments on a context of its own.
InitHandlers ==
    \E args \in ArgLists(1) :
        LET r1 == WithValues(<<Background>>, <<>>, BackgroundId, args)
            r2 == MapWithValues(r1.ctxs, r1.heap, BackgroundId, args)
        IN  /\ r1.res = SliceCtxId
            /\ ~r2.fault
            /\ ctxs = r2.ctxs
            /\ heap = r2.heap
            /\ last = NoCall
            /\ procs = [g \in 1..NProcs |-> NotStarted]
            /\ handler = NewHandler(Sink(<<>>))
            /\ state = NewObservedState
            /\ snaps = <<>>
            /\ handlers = <<>>

NextHandlers ==
    \/ CallNewHandler
    \/ CallEnabled
    \/ CallHandlerHandle
    \/ CallWithAttrs
    \/ CallWithGroup
    \/ Resume

SpecHandlers == InitHandlers /\ [][NextHandlers]_vars

\* ====================================================================
\* slogtest.ObservedHandler: goroutines logging through handlers that share
\* one observedState, and reading it with Logs
\* ====================================================================
\* the handlers WithAttrs and WithGroup derive from the root in at most d calls
RECURSIVE ObservedHandlers(_)
ObservedHandlers(d) ==
    IF d = 0 THEN {NewObservedHandler}
    ELSE LET P == ObservedHandlers(d - 1)
         IN  P \cup {ObservedHandlerWithAttrs(h, a) : h \in P, a \in ScopeAttrs}
               \cup {ObservedHandlerWithGroup(h, n) : h \in P, n \in GroupNames}

NoLog == [id |-> <<0, 0>>, attrs |-> <<>>, groups |-> <<>>]
\* what the owner of a returned slice writes into it
Scribble == [id |-> <<0, 0>>, attrs |-> <<>>, groups |-> <<"scribble">>]

\* a goroutine between two calls; handled counts its Handle calls that have
\* stored their entry, calls its calls that have returned
ObsNotStarted ==
    [pc |-> "start", op |-> "none", entry |-> NoLog, local |-> NilSlice,
     handled |-> 0, calls |-> 0]

\* Handle up to the Lock: recordAttrs and combinedAttrs are built
ObsHandleBegin(g) ==
    /\ procs[g].pc = "start"
    /\ procs[g].calls < MaxCalls
    /\ \E h \in ObservedHandlers(MaxDerived), recordAttrs \in CallSiteAttrs :
          procs' = [procs EXCEPT ![g] =
                      [@ EXCEPT !.pc = "lock", !.op = "Handle",
                                !.entry = ObservedLog(h, <<g, procs[g].handled + 1>>,
                                                      recordAttrs)]]
    /\ UNCHANGED <<ctxs, heap, last, handler, state, snaps, handlers>>

\* h.state.mu.Lock()
ObsHandleLock(g) ==
    /\ procs[g].pc = "lock"
    /\ MutexFree(state.mu)
    /\ state' = [state EXCEPT !.mu = g]
    /\ procs' = [procs EXCEPT ![g] = [@ EXCEPT !.pc = "append"]]
    /\ UNCHANGED <<ctxs, heap, last, handler, snaps, handlers>>

\* append(h.state.logs, ObservedLog{...})
ObsHandleAppend(g) ==
    /\ procs[g].pc = "append"
    /\ LET r == AppendSlice(heap, state.logs, <<procs[g].entry>>)
       IN  /\ heap' = r.heap
           /\ procs' = [procs EXCEPT ![g] = [@ EXCEPT !.pc = "store", !.local = r.slice]]
    /\ UNCHANGED <<ctxs, last, handler, state, snaps, handlers>>

\* h.state.logs = the result of append
ObsHandleStore(g) ==
    /\ procs[g].pc = "store"
    /\ state' = [state EXCEPT !.logs = procs[g].local]
    /\ procs' = [procs EXCEPT ![g] = [@ EXCEPT !.pc = "unlock", !.handled = @ + 1]]
    /\ UNCHANGED <<ctxs, heap, last, handler, snaps, handlers>>

\* return nil, with the deferred h.state.mu.Unlock()
ObsHandleReturn(g) ==
    /\ procs[g].pc = "unlock"
    /\ state' = [state EXCEPT !.mu = 0]
    /\ procs' = [procs EXCEPT ![g] = [@ EXCEPT !.pc = "start", !.calls = @ + 1]]
    /\ UNCHANGED <<ctxs, heap, last, handler, snaps, handlers>>

\* Logs: h.state.mu.Lock()
ObsLogsLock(g) ==
    /\ procs[g].pc = "start"
    /\ procs[g].calls < MaxCalls
    /\ MutexFree(state.mu)
    /\ state' = [state EXCEPT !.mu = g]
    /\ procs' = [procs EXCEPT ![g] = [@ EXCEPT !.pc = "copy", !.op = "Logs"]]
    /\ UNCHANGED <<ctxs, heap, last, handler, snaps, handlers>>

\* Logs: append([]ObservedLog(nil), h.state.logs...)
ObsLogsCopy(g) ==
    /\ procs[g].pc = "copy"
    /\ LET r == LogsCopy(heap, state.logs)
       IN  /\ heap' = r.heap
           /\ procs' = [procs EXCEPT ![g] = [@ EXCEPT !.pc = "return", !.local = r.slice]]
    /\ UNCHANGED <<ctxs, last, handler, state, snaps, handlers>>

\* Logs returns the slice, with the deferred Unlock; seen keeps what the
\* caller found in it
ObsLogsReturn(g) ==
    /\ procs[g].pc = "return"
    /\ state' = [state EXCEPT !.mu = 0]
    /\ snaps' = Append(snaps, [slice |-> procs[g].local,
                               seen |-> Elems(heap, procs[g].local), touched |-> FALSE])
    /\ procs' = [procs EXCEPT ![g] = [@ EXCEPT !.pc = "start", !.calls = @ + 1]]
    /\ UNCHANGED <<ctxs, heap, last, handler, handlers>>

\* the caller of Logs replaces an element of the slice it got: logs[i] = ...
ObsReplace ==
    /\ \E k \in 1..Len(snaps) :
          /\ ~snaps[k].touched
          /\ \E i \in 1..snaps[k].slice.len :
                heap' = [heap EXCEPT ![snaps[k].slice.arr][i] = Scribble]
          /\ snaps' = [snaps EXCEPT ![k].touched = TRUE]
    /\ UNCHANGED <<ctxs, last, procs, handler, state, handlers>>

\* the caller of Logs truncates the slice it got: logs = logs[:n]
ObsTruncate ==
    /\ \E k \in 1..Len(snaps) :
          /\ ~snaps[k].touched
          /\ \E n \in 0..(snaps[k].slice.len - 1) :
                snaps' = [snaps EXCEPT ![k].touched = TRUE, ![k].slice.len = n]
    /\ UNCHANGED <<ctxs, heap, last, procs, handler, state, handlers>>

InitObserved ==
    /\ ctxs = <<Background>>
    /\ heap = <<>>
    /\ last = NoCall
    /\ procs = [g \in 1..NProcs |-> ObsNotStarted]
    /\ handler = NilHandler
    /\ state = NewObservedState
    /\ snaps = <<>>
    /\ handlers = <<>>

NextObserved ==
    \/ \E g \in 1..NProcs :
          \/ ObsHandleBegin(g)
          \/ ObsHandleLock(g)
          \/ ObsHandleAppend(g)
          \/ ObsHandleStore(g)
          \/ ObsHandleReturn(g)
          \/ ObsLogsLock(g)
          \/ ObsLogsCopy(g)
          \/ ObsLogsReturn(g)
    \/ ObsReplace
    \/ ObsTruncate

SpecObserved == InitObserved /\ [][NextObserved]_vars

\* ====================================================================
\* Properties
\* ====================================================================
\* The pairs of an argument list, the unpaired last argument left out.
AllPairs(args) == [j \in 1..(Len(args) \div 2) |-> [k |-> args[2 * j - 1], v |-> args[2 * j]]]
\* A pair is valid when its key position holds a non-empty string.
ValidPair(p) == p.k.typ = "string" /\ p.k.str # ""
\* The fields the valid pairs of an argument list stand for, in their order.
ValidFields(args) ==
    LET sel == SelectSeq(AllPairs(args), ValidPair)
    IN  [j \in 1..Len(sel) |-> [key |-> sel[j].k.str, val |-> sel[j].v]]
KeysOf(fields) == {fields[i].key : i \in 1..Len(fields)}
\* The fields of a sequence whose key is not in ks, in their order.
Without(fields, ks) ==
    LET Kept(f) == f.key \notin ks
    IN  SelectSeq(fields, Kept)
\* How many fields of a sequence have the key.
Count(fields, key) == Cardinality({i \in 1..Len(fields) : fields[i].key = key})
IsAdd == last.op \in {"WithValues", "WithUniqueValues"}
\* the context a derivation starts from: the nil Context stands for Background
From(c) == IF c = 0 THEN BackgroundId ELSE c

\* C1: WithValues with at least one valid pair returns a context whose carrier
\* is the carrier of ctx followed by the valid pairs of args in their order;
\* keys already present, or repeated within args, are all kept.
C1_WithValuesAppends ==
    (last.op = "WithValues" /\ ValidFields(last.args) # <<>>)
        => /\ ~last.fault
           /\ Carrier(last.res) = last.pre \o ValidFields(last.args)

\* C1 witness: a batch of two valid pairs with the key of a field ctx already has.
C1_Witness ==
    /\ last.op = "WithValues"
    /\ last.pre # <<>>
    /\ Len(ValidFields(last.args)) = 2
    /\ ValidFields(last.args)[1].key = ValidFields(last.args)[2].key
    /\ ValidFields(last.args)[1].key \in KeysOf(last.pre)
    /\ Len(Carrier(last.res)) = Len(last.pre) + 2

\* C2: WithUniqueValues with at least one valid pair returns a context whose
\* carrier is the carrier of ctx without the fields whose key is a valid key of
\* args (the others in their order), followed by all valid pairs of args.
C2_WithUniqueValuesReplaces ==
    (last.op = "WithUniqueValues" /\ ValidFields(last.args) # <<>>)
        => /\ ~last.fault
           /\ Carrier(last.res) =
                  Without(last.pre, KeysOf(ValidFields(last.args))) \o ValidFields(last.args)

\* C2 witness: ctx has a field the batch replaces and one it leaves alone.
C2_Witness ==
    /\ last.op = "WithUniqueValues"
    /\ \E i, j \in 1..Len(last.pre) :
          /\ last.pre[i].key \in KeysOf(ValidFields(last.args))
          /\ last.pre[j].key \notin KeysOf(ValidFields(last.args))
    /\ Len(Carrier(last.res)) = Len(last.pre)

\* C3 as stated: after WithUniqueValues no key of the batch has more than one
\* field in the resulting carrier, whatever the batch contains.
C3_AtMostOnePerBatchKey ==
    (last.op = "WithUniqueValues" /\ ~last.fault)
        => \A key \in KeysOf(ValidFields(last.args)) : Count(Carrier(last.res), key) <= 1

\* C3 amended: after WithUniqueValues every key of the batch has exactly as many
\* fields in the resulting carrier as the batch has valid pairs with that key
\* (so no more than one when the batch names the key once), whatever ctx carried.
C3_OnePerBatchOccurrence ==
    (last.op = "WithUniqueValues" /\ ~last.fault)
        => \A key \in KeysOf(ValidFields(last.args)) :
              Count(Carrier(last.res), key) = Count(ValidFields(last.args), key)

\* C3 witness: ctx had two fields with a key the batch names once; one is left.
C3_Witness ==
    /\ last.op = "WithUniqueValues"
    /\ \E key \in KeysOf(ValidFields(last.args)) :
          /\ Count(last.pre, key) = 2
          /\ Count(ValidFields(last.args), key) = 1
          /\ Count(Carrier(last.res), key) = 1

\* C4: WithoutKeys on a context with a carrier and a non-empty key list returns
\* a context whose carrier is the fields of ctx whose key is not listed, in the
\* same order; every field with a listed key is gone, duplicates included.
C4_WithoutKeysFilters ==
    (last.op = "WithoutKeys" /\ last.ctx # 0 /\ last.pre # <<>> /\ last.keys # <<>>)
        => /\ ~last.fault
           /\ Carrier(last.res) =
                  Without(last.pre, {last.keys[i] : i \in 1..Len(last.keys)})

\* C4 witness: the listed key is the key of two fields of ctx, and both are gone.
C4_Witness ==
    /\ last.op = "WithoutKeys"
    /\ last.keys # <<>>
    /\ \E i, j \in 1..Len(last.pre) :
          /\ i # j
          /\ last.pre[i].key = last.pre[j].key
          /\ last.pre[i].key = last.keys[1]
    /\ Len(Carrier(last.res)) = Len(last.pre) - 2
    /\ last.res # last.ctx

\* C5: a record handled with a context that WithoutAllKeys returned reaches the
\* wrapped handler with the attributes of the call site and nothing else.
C5_ClearedEmitsCallSiteOnly ==
    (last.op = "Handle" /\ last.ctx # 0 /\ ctxs[last.ctx].origin = "WithoutAllKeys")
        => /\ ~last.fault
           /\ last.rec = last.attrs

\* C5 witness: the cleared context derives from one that carries fields, and
\* the call site supplied an attribute.
C5_Witness ==
    /\ last.op = "Handle"
    /\ last.ctx # 0
    /\ ctxs[last.ctx].origin = "WithoutAllKeys"
    /\ Carrier(ctxs[last.ctx].parent) # <<>>
    /\ last.attrs # <<>>
    /\ last.rec = last.attrs

\* the least element of a non-empty set of numbers
Least(S) == CHOOSE i \in S : \A j \in S : i <= j
\* the positions of the fields with the key
Positions(fields, key) == {i \in 1..Len(fields) : fields[i].key = key}

\* C6: GetFirstValue returns the value of the earliest field with the key and
\* true, or (nil, false) when the key is empty, no carrier is bound or no field
\* matches; a context WithValues derives answers as its parent does for every
\* key the parent has.
C6_GetFirstValueEarliest ==
    /\ (last.op = "GetFirstValue" /\ (last.ctx # 0 \/ last.key = ""))
          => /\ ~last.fault
             /\ IF last.key = "" \/ Positions(last.pre, last.key) = {}
                THEN ~last.ok /\ last.val = NilVal
                ELSE last.ok /\ last.val = last.pre[Least(Positions(last.pre, last.key))].val
    /\ \A c \in 2..Len(ctxs) : \A key \in Keys :
          (ctxs[c].origin = "WithValues"
             /\ GetFirstValue(ctxs, heap, ctxs[c].parent, key).ok)
              => GetFirstValue(ctxs, heap, c, key) = GetFirstValue(ctxs, heap, ctxs[c].parent, key)

\* C6 witness: the key has two fields with different values, the later one
\* appended by WithValues to a parent that already had the key.
C6_Witness ==
    /\ last.op = "GetFirstValue"
    /\ last.ok
    /\ last.ctx # 0
    /\ ctxs[last.ctx].origin = "WithValues"
    /\ Count(Carrier(ctxs[last.ctx].parent), last.key) = 1
    /\ Count(last.pre, last.key) = 2
    /\ \E i, j \in Positions(last.pre, last.key) : last.pre[i].val # last.pre[j].val

\* what a reader gets through context c in the state (cs, A)
Observed(cs, A, c) ==
    [fields |-> FieldsOf(cs, A, c),
     first |-> [key \in Keys |-> GetFirstValue(cs, A, c, key)],
     has |-> [key \in Keys |-> HasKey(cs, A, c, key)],
     emitted |-> Handle(cs, A, c, <<>>)]

\* C7: no call changes what is observed through a context that exists already.
C7_CarriersImmutable ==
    [][\A c \in 1..Len(ctxs) : Observed(ctxs', heap', c) = Observed(ctxs, heap, c)]_vars

\* C7 witness: a context with fields from which WithoutKeys derived another.
C7_Witness ==
    /\ last.op = "WithoutKeys"
    /\ last.res # last.ctx
    /\ Carrier(last.res) # <<>>
    /\ Carrier(last.res) # last.pre
    /\ Carrier(last.ctx) = last.pre

\* the argument list without its last element
Front(args) == SubSeq(args, 1, Len(args) - 1)

\* C9: an argument list of odd length gives what the list without its last
\* argument gives, with no fault; the last argument is no value of the carrier,
\* and no key of it unless ctx or a valid pair has that key.
C9_OddArgumentDropped ==
    (IsAdd /\ Len(last.args) % 2 = 1)
        => LET front == Front(last.args)
               dropped == last.args[Len(last.args)]
               new == ValidFields(front)
               res == Carrier(last.res)
           IN  /\ ~last.fault
               /\ IF new = <<>> THEN last.res = From(last.ctx)
                  ELSE IF last.op = "WithValues" THEN res = last.pre \o new
                  ELSE res = Without(last.pre, KeysOf(new)) \o new
               /\ \A i \in 1..Len(res) : res[i].val # dropped
               /\ dropped.str \notin KeysOf(last.pre) \cup KeysOf(new)
                     => /\ dropped.str \notin KeysOf(res)
                        /\ ~GetFirstValue(ctxs, heap, last.res, dropped.str).ok

\* C9 witness: "a", v, "b" stores a=v alone.
C9_Witness ==
    /\ last.op = "WithValues"
    /\ Len(last.args) = 3
    /\ last.args[1] = StrVal("a")
    /\ last.args[3] = StrVal("b")
    /\ ~last.fault
    /\ Carrier(last.res) = <<[key |-> "a", val |-> last.args[2]]>>

\* C10: of the pairs of one batch, each pair with an empty or non-string key is
\* dropped alone: every valid pair is stored, a dropped pair's value is not,
\* and no field has the empty key.
C10_BadPairDroppedAlone ==
    (IsAdd /\ ~last.fault)
        => LET res == Carrier(last.res)
               pairs == AllPairs(last.args)
           IN  /\ \A j \in 1..Len(pairs) :
                     IF ValidPair(pairs[j])
                     THEN \E i \in 1..Len(res) :
                              res[i] = [key |-> pairs[j].k.str, val |-> pairs[j].v]
                     ELSE \A i \in 1..Len(res) : res[i].val # pairs[j].v
               /\ "" \notin KeysOf(res)

\* C10 witness: a dropped pair before a stored one, added to a context with fields.
C10_Witness ==
    /\ IsAdd
    /\ Len(last.args) = 4
    /\ ~ValidPair(AllPairs(last.args)[1])
    /\ ValidPair(AllPairs(last.args)[2])
    /\ last.pre # <<>>
    /\ Len(Carrier(last.res)) = Len(last.pre) + 1
    /\ Carrier(last.res)[Len(last.pre) + 1].val = last.args[4]

\* the attributes the Handler adds for a sequence of fields
AttrsOf(fields) ==
    [i \in 1..Len(fields) |-> [key |-> fields[i].key, value |-> AnyValue(fields[i].val)]]
\* the fields the parent was built with
ParentFields == ValidFields(last.args)
\* what the call of a goroutine that is done has to have returned
DerivedAsAlone(g) ==
    LET new == ValidFields(procs[g].args)
        ks == {procs[g].keys[i] : i \in 1..Len(procs[g].keys)}
        res == Carrier(procs[g].res)
    IN  CASE procs[g].op = "WithValues" ->
                IF new = <<>> THEN procs[g].res = ParentId
                ELSE procs[g].res > ParentId /\ res = ParentFields \o new
          [] procs[g].op = "WithUniqueValues" ->
                IF new = <<>> THEN procs[g].res = ParentId
                ELSE procs[g].res > ParentId /\ res = Without(ParentFields, KeysOf(new)) \o new
          [] procs[g].op = "WithoutKeys" ->
                IF ks = {} THEN procs[g].res = ParentId
                ELSE res = Without(ParentFields, ks)
          [] OTHER -> TRUE

\* C8: whatever the goroutines sharing the parent do and in whatever order,
\* every record handled with the parent reaches the wrapped handler with its
\* call-site attributes followed by all the parent's fields in order, and the
\* context each derivation returned carries what it would carry had the
\* derivation run alone, which no later step of another goroutine changes.
C8_ConcurrentUseOfParent ==
    /\ Carrier(ParentId) = ParentFields
    /\ \A g \in 1..NProcs :
          procs[g].pc = "done"
              => /\ procs[g].op = "Handle"
                       => procs[g].rec = procs[g].attrs \o AttrsOf(ParentFields)
                 /\ DerivedAsAlone(g)

\* C8 witness: a Handle call with the parent has delivered its record, with
\* the parent's fields in it, and the other goroutine has derived a context of
\* its own from the parent.
C8_Witness ==
    /\ procs[1].pc = "done" /\ procs[1].op = "Handle"
    /\ procs[2].pc = "done" /\ procs[2].res > ParentId
    /\ Len(procs[1].rec) > Len(procs[1].attrs)

\* Two goroutines have each derived a context of their own from the parent by
\* appending to it, and the two carry different fields.
SiblingsDerived ==
    /\ procs[1].pc = "done" /\ procs[1].op = "WithValues"
    /\ procs[2].pc = "done" /\ procs[2].op = "WithValues"
    /\ procs[1].res > ParentId /\ procs[2].res > ParentId
    /\ procs[1].res # procs[2].res
    /\ Carrier(procs[1].res) # Carrier(procs[2].res)

\* ---------------------------------------------------------------- C11
\* C11: a record handled with a non-nil context reaches the wrapped handler
\* with the attributes of the call site first and unchanged, followed by one
\* attribute per field of the context's carrier, in insertion order and with
\* duplicate keys kept; with no carrier bound it is the call site's record.
C11_HandleAppendsCarrier ==
    (last.op = "Handle" /\ last.ctx # 0)
        => /\ ~last.fault
           /\ Len(last.rec) = Len(last.attrs) + Len(last.pre)
           /\ SubSeq(last.rec, 1, Len(last.attrs)) = last.attrs
           /\ \A i \in 1..Len(last.pre) :
                 /\ last.rec[Len(last.attrs) + i].key = last.pre[i].key
                 /\ last.rec[Len(last.attrs) + i].value = AnyValue(last.pre[i].val)

\* C11 witness: the call site gave an attribute and the carrier has two fields
\* with one key, which are both in the record.
C11_Witness ==
    /\ last.op = "Handle"
    /\ last.ctx # 0
    /\ last.attrs # <<>>
    /\ Len(last.pre) = 2
    /\ last.pre[1].key = last.pre[2].key
    /\ last.pre[1].val # last.pre[2].val
    /\ Len(last.rec) = 3

\* ---------------------------------------------------------------- C12
\* C12: whenever Handle of a Handler returns, the wrapped handler has got the
\* record and Handle returns the very error that handler's Handle returned,
\* nil included: no error of its own, none hidden or replaced. It returns for
\* every record and non-nil context when there is a wrapped handler, and
\* panics otherwise.
C12_HandleReturnsWrappedError ==
    (last.op = "Handle" /\ last.recv.kind = "Handler")
        => /\ last.fault <=> (last.ctx = 0 \/ last.recv.Handler.kind = "nil")
           /\ ~last.fault => /\ last.to = last.recv.Handler
                             /\ last.err = last.sinkErr

\* C12 witness: the wrapped handler failed on a record that carries the
\* context's fields, and Handle returned that error.
C12_Witness ==
    /\ last.op = "Handle"
    /\ last.recv.kind = "Handler"
    /\ last.ctx = SliceCtxId
    /\ Len(last.rec) > Len(last.attrs)
    /\ last.sinkErr = "EIO"
    /\ last.err = "EIO"

\* ---------------------------------------------------------------- C13
\* the attributes a handler of the package has to add for context c
CarriedAttrs(kind, c) ==
    IF kind = "Handler"
    THEN {AttrsOf(Carrier(c))[i] : i \in 1..Len(Carrier(c))}
    ELSE LET es == MapEntries(ctxs, heap, c)
         IN  {SlogAny(es[i].key.str, es[i].val) : i \in {j \in 1..Len(es) : es[j].key.typ = "string"}}
\* the attributes of a record
AttrSet(rec) == {rec[i] : i \in 1..Len(rec)}
\* the wrapped handler as the call scoped it
Scoped(h) ==
    IF last.op = "WithAttrs" THEN SinkWithAttrs(h, last.attrs) ELSE SinkWithGroup(h, last.key)

\* C13: what WithAttrs and WithGroup of a Handler of either package return is
\* a Handler of that package around the wrapped handler's WithAttrs / WithGroup
\* result, and a record handled through it with any context still gets the
\* fields the context carries.
C13_ScopedHandlersPropagate ==
    (/\ last.op \in {"WithAttrs", "WithGroup"}
     /\ last.recv.kind \in {"Handler", "MapHandler"}
     /\ ~last.fault)
        => /\ last.out.kind = last.recv.kind
           /\ \A c \in 1..Len(ctxs), rec \in CallSiteAttrs :
              \A order \in Orders(IF last.out.kind = "MapHandler"
                                  THEN Len(MapEntries(ctxs, heap, c)) ELSE 0) :
                 LET r == DoHandle(ctxs, heap, last.out, c, rec, order, NoError)
                 IN  /\ ~r.fault
                     /\ r.to = Scoped(last.recv.Handler)
                     /\ CarriedAttrs(last.recv.kind, c) \subseteq AttrSet(r.rec)

\* ---------------------------------------------------------------- C18
\* C18: NewHandler(nil) returns a Handler without any fault, and every call of
\* Enabled, Handle, WithAttrs or WithGroup on that Handler ends in a runtime
\* panic: none returns.
C18_NilWrappedFaultsOnUse ==
    /\ last.op = "NewHandler" => ~last.fault /\ last.out.Handler = last.recv
    /\ (/\ last.op \in {"Enabled", "Handle", "WithAttrs", "WithGroup"}
        /\ last.recv = NewHandler(NilHandler))
           => last.fault

\* C18 witness: a record with a context that carries fields was handled by a
\* Handler built from nil, and the call panicked.
C18_Witness ==
    /\ last.op = "Handle"
    /\ last.recv = NewHandler(NilHandler)
    /\ last.ctx = SliceCtxId
    /\ last.fault

\* ---------------------------------------------------------------- C14
\* a call that must change nothing: no key to remove, or no valid pair to add
NoOpCall ==
    \/ last.op = "WithoutKeys" /\ last.keys = <<>>
    \/ last.op \in {"WithValues", "WithUniqueValues"} /\ ValidFields(last.args) = <<>>

\* C14: the context a no-op call returns for a context with fields F carries F,
\* and a record handled with it gets exactly the attributes of F, same keys,
\* values and order, after those of the call site; as the call builds nothing,
\* any number of such calls leaves it so.
C14_NoOpCallsTransparent ==
    (NoOpCall /\ last.ctx # 0)
        => /\ ~last.fault
           /\ last.res # 0
           /\ Carrier(last.res) = last.pre
           /\ \A attrs \in CallSiteAttrs :
                 Handle(ctxs, heap, last.res, attrs)
                     = [rec |-> attrs \o AttrsOf(last.pre), fault |-> FALSE]

\* C14 witness: WithValues with only malformed pairs on a context with fields.
C14_Witness ==
    /\ last.op = "WithValues"
    /\ Len(last.args) >= 2
    /\ ValidFields(last.args) = <<>>
    /\ last.ctx # 0
    /\ Len(last.pre) = 2
    /\ Carrier(last.res) = last.pre

\* ---------------------------------------------------------------- C15
\* C15 as stated: WithValues and WithUniqueValues with no valid pair return
\* the very context they were given, the nil context included.
C15_ReturnsGivenContext ==
    (last.op \in {"WithValues", "WithUniqueValues"} /\ ValidFields(last.args) = <<>>)
        => ~last.fault /\ last.res = last.ctx

\* C15 as amended: WithValues and WithUniqueValues with no valid pair return
\* the context they were given, and context.Background() when given the nil
\* context; in neither case a context of their own making.
C15_ReturnsGivenOrBackground ==
    (last.op \in {"WithValues", "WithUniqueValues"} /\ ValidFields(last.args) = <<>>)
        => /\ ~last.fault
           /\ last.res = IF last.ctx = 0 THEN BackgroundId ELSE last.ctx
           /\ Carrier(last.res) = last.pre

\* C15 witness: WithUniqueValues with a pair whose key is not a string and an
\* odd last argument, on a context that carries fields, returned that context.
C15_Witness ==
    /\ last.op = "WithUniqueValues"
    /\ Len(last.args) = 3
    /\ last.args[1].typ = "int"
    /\ last.ctx > BackgroundId
    /\ last.pre # <<>>
    /\ last.res = last.ctx

\* ---------------------------------------------------------------- C16
\* nothing can be found or is emitted through context c
Cleared(c) ==
    /\ \A key \in Keys :
          /\ HasKey(ctxs, heap, c, key) = [ok |-> FALSE, fault |-> FALSE]
          /\ GetFirstValue(ctxs, heap, c, key) = NotFound
    /\ \A attrs \in CallSiteAttrs :
          Handle(ctxs, heap, c, attrs) = [rec |-> attrs, fault |-> FALSE]

\* C16: for a non-nil context with fields, the context WithoutAllKeys returns
\* and the one WithoutKeys returns when given every key present are alike to an
\* observer: HasKey is false and GetFirstValue is (nil, false) for every key,
\* and a handled record gets no attribute from the context.
C16_ClearingsAlike ==
    (/\ last.ctx # 0
     /\ last.pre # <<>>
     /\ \/ last.op = "WithoutAllKeys"
        \/ last.op = "WithoutKeys" /\ KeysOf(last.pre) \subseteq KeySet(last.keys))
        => /\ ~last.fault
           /\ last.res # 0
           /\ Cleared(last.res)

\* C16 witness: WithoutKeys removed both keys of a context with two fields.
C16_Witness ==
    /\ last.op = "WithoutKeys"
    /\ last.ctx # 0
    /\ Len(last.pre) = 2
    /\ KeysOf(last.pre) = {"a", "b"}
    /\ KeySet(last.keys) = {"a", "b"}
    /\ last.res # last.ctx
    /\ Cleared(last.res)

\* ---------------------------------------------------------------- C17
\* C17: HasKey returns true exactly when the key is not empty and the carrier
\* of the context has a field with it, and that is the boolean GetFirstValue
\* returns for the same context and key; on the nil context with a non-empty
\* key neither returns, both panic.
C17_HasKeyIsGetFirstValueOk ==
    last.op = "HasKey"
        => LET g == GetFirstValue(ctxs, heap, last.ctx, last.key)
           IN  /\ last.ok <=> (last.key # "" /\ \E i \in 1..Len(last.pre) : last.pre[i].key = last.key)
               /\ last.fault <=> (last.ctx = 0 /\ last.key # "")
               /\ last.fault = g.fault
               /\ last.ok = g.ok

\* C17 witness: the key is found at the second field only.
C17_Witness ==
    /\ last.op = "HasKey"
    /\ last.ok
    /\ Len(last.pre) = 2
    /\ last.pre[1].key # last.key
    /\ last.pre[2].key = last.key

\* ------------------------------------------------------------- C19, C20
\* the shared log buffer
Buffer == Elems(heap, state.logs)
\* the Handle calls that have stored their entry
Stored == UNION {{<<g, k>> : k \in 1..procs[g].handled} : g \in 1..NProcs}
IsPrefix(a, b) == Len(a) <= Len(b) /\ \A i \in 1..Len(a) : a[i] = b[i]

\* C19: whatever the interleaving of the goroutines' Handle calls, made through
\* the root handler and the handlers derived from it, and of their Logs calls,
\* the buffer holds one entry for every Handle call that has stored its entry
\* and nothing else, the entry of the call that stored last at its end, and
\* every slice Logs returned held a prefix of the buffer.
C19_OneEntryPerHandle ==
    /\ Len(Buffer) = Cardinality(Stored)
    /\ \A id \in Stored : Cardinality({i \in 1..Len(Buffer) : Buffer[i].id = id}) = 1
    /\ \A g \in 1..NProcs :
          procs[g].pc = "unlock" => Buffer[Len(Buffer)] = procs[g].entry
    /\ \A k \in 1..Len(snaps) : IsPrefix(snaps[k].seen, Buffer)

\* C19 witness: the buffer holds entries of two goroutines, one of them logged
\* through a derived handler, and Logs returned a slice between the two.
C19_Witness ==
    /\ Len(Buffer) = 2
    /\ Buffer[1].id[1] # Buffer[2].id[1]
    /\ Buffer[2].groups # <<>>
    /\ \E k \in 1..Len(snaps) : Len(snaps[k].seen) = 1

\* C20: a slice Logs returned keeps the entries it was returned with as long
\* as its owner does not write to it, whatever Handle calls follow; whatever
\* the owner replaces or cuts off, no later Logs call returns it; and what
\* each Logs call returned is a prefix of what every later one returns.
C20_LogsReturnsCopy ==
    /\ \A k \in 1..Len(snaps) :
          /\ ~snaps[k].touched => Elems(heap, snaps[k].slice) = snaps[k].seen
          /\ \A i \in 1..Len(snaps[k].seen) : snaps[k].seen[i] # Scribble
    /\ \A j, k \in 1..Len(snaps) : j < k => IsPrefix(snaps[j].seen, snaps[k].seen)

\* C20 witness: the owner replaced the entry of the first slice, a Handle call
\* followed, and a second Logs call returned both entries.
C20_Witness ==
    /\ Len(snaps) = 2
    /\ snaps[1].touched
    /\ Len(snaps[1].seen) = 1
    /\ heap[snaps[1].slice.arr][1] = Scribble
    /\ Len(snaps[2].seen) = 2
    /\ snaps[2].seen[1] = snaps[1].seen[1]

\* ====================================================================
\* slogtest.ObservedHandler: scoping, with attrs and groups as slices over
\* the backing arrays the derived handlers may come to share
\* ====================================================================
\* the handlers one root gives rise to, the root included
MaxHandlers == 5
\* the attributes one WithAttrs call passes
MaxBatch == 2
\* the records logged
MaxLogs == 1

\* slog.Int("k", n): the attributes the calls pass are told apart by n
IntAttr(n) == [key |-> "k", value |-> [kind |-> "Int64", str |-> "", num |-> n]]
\* the attributes of the d-th derivation, k of them
Batch(d, k) == [j \in 1..k |-> IntAttr(10 * d + j)]
Batches(d) == {Batch(d, k) : k \in 1..MaxBatch}
\* the group name of the d-th derivation
ScopeNames == <<"g1", "g2", "g3">>
ScopeName(d) == ScopeNames[(d % Len(ScopeNames)) + 1]

\* &ObservedHandler{state: &observedState{}}
ObservedRoot == [attrs |-> NilSlice, groups |-> NilSlice]

\* append(h.attrs, attrs...): without the copy the receiver's array is shared
CombinedInPlace(A, h, attrs) == AppendSlice(A, h.attrs, attrs)

\* append(append([]slog.Attr{}, h.attrs...), attrs...)
Combined(A, h, attrs) ==
    LET copy == AppendSlice(A, NilSlice, Elems(A, h.attrs))
    IN  AppendSlice(copy.heap, copy.slice, attrs)

\* newGroups := append([]string{}, h.groups...); newGroups = append(newGroups, name)
NewGroups(A, h, name) ==
    LET copy == AppendSlice(A, NilSlice, Elems(A, h.groups))
    IN  AppendSlice(copy.heap, copy.slice, <<name>>)

\* (h *ObservedHandler) WithAttrs: the groups slice is the receiver's
ObservedWithAttrs(A, h, attrs) ==
    LET c == Combined(A, h, attrs)
        r == Collect(c.heap, Len(A), c.slice)
    IN  [heap |-> r.heap, res |-> [attrs |-> r.slice, groups |-> h.groups]]

\* (h *ObservedHandler) WithGroup: the attrs slice is the receiver's
ObservedWithGroup(A, h, name) ==
    LET c == NewGroups(A, h, name)
        r == Collect(c.heap, Len(A), c.slice)
    IN  [heap |-> r.heap, res |-> [attrs |-> h.attrs, groups |-> r.slice]]

\* the ObservedLog Handle builds for the record id: both of its slices are
\* new arrays nothing else refers to, held here by their elements
ObservedEntry(A, h, id, recordAttrs) ==
    LET c == Combined(A, h, recordAttrs)
        g == AppendSlice(A, NilSlice, Elems(A, h.groups))
    IN  [id |-> id, attrs |-> Elems(c.heap, c.slice), groups |-> Elems(g.heap, g.slice)]

\* (h *ObservedHandler) Handle, from Lock to Unlock
ObservedHandle(A, st, h, id, recordAttrs) ==
    LET r == AppendSlice(A, st.logs, <<ObservedEntry(A, h, id, recordAttrs)>>)
    IN  [heap |-> r.heap, state |-> [st EXCEPT !.logs = r.slice]]

\* the records logged: 1 carries no attribute, 2 carries one
Records == {1, 2}
RecordAttrs(r) == IF r = 1 THEN <<>> ELSE <<IntAttr(r)>>

\* a handler with the call that derived it: from which handler, with what
Derived(h, from, attrs, group) ==
    [h |-> h, from |-> from, attrs |-> attrs, group |-> group]

\* the most recent call, when it was a Handle: the handler it went through
NoScopeCall == [op |-> "none", recv |-> 0]

\* logger.With(attrs...): WithAttrs on any handler derived so far
ScopeWithAttrs ==
    /\ Len(handlers) < MaxHandlers
    /\ \E i \in 1..Len(handlers), attrs \in Batches(Len(handlers)) :
          LET r == ObservedWithAttrs(heap, handlers[i].h, attrs)
          IN  /\ heap' = r.heap
              /\ handlers' = Append(handlers, Derived(r.res, i, attrs, ""))
              /\ last' = NoScopeCall
    /\ UNCHANGED <<ctxs, procs, handler, state, snaps>>

\* logger.WithGroup(name): WithGroup on any handler derived so far
ScopeWithGroup ==
    /\ Len(handlers) < MaxHandlers
    /\ \E i \in 1..Len(handlers) :
          LET name == ScopeName(Len(handlers))
              r == ObservedWithGroup(heap, handlers[i].h, name)
          IN  /\ heap' = r.heap
              /\ handlers' = Append(handlers, Derived(r.res, i, <<>>, name))
              /\ last' = NoScopeCall
    /\ UNCHANGED <<ctxs, procs, handler, state, snaps>>

\* logger.Info(msg, attrs...) through any handler derived so far
ScopeHandle ==
    /\ state.logs.len < MaxLogs
    /\ \E i \in 1..Len(handlers), rec \in Records :
          LET r == ObservedHandle(heap, state, handlers[i].h, <<i, rec>>, RecordAttrs(rec))
          IN  /\ heap' = r.heap
              /\ state' = r.state
              /\ last' = [op |-> "Handle", recv |-> i]
    /\ UNCHANGED <<ctxs, procs, handler, snaps, handlers>>

\* NewTestLogger: the root handler and its empty state
InitScoping ==
    /\ ctxs = <<Background>>
    /\ heap = <<>>
    /\ last = NoScopeCall
    /\ procs = <<>>
    /\ handler = NilHandler
    /\ state = NewObservedState
    /\ snaps = <<>>
    /\ handlers = <<Derived(ObservedRoot, 0, <<>>, "")>>

NextScoping ==
    \/ ScopeWithAttrs
    \/ ScopeWithGroup
    \/ ScopeHandle

SpecScoping == InitScoping /\ [][NextScoping]_vars

\* ---- C21
RECURSIVE ChainAttrs(_)
\* the attributes of the WithAttrs calls on the way from the root to handler i
ChainAttrs(i) ==
    IF i = 0 THEN <<>> ELSE ChainAttrs(handlers[i].from) \o handlers[i].attrs

RECURSIVE ChainGroups(_)
\* the names of the WithGroup calls on the way from the root to handler i
ChainGroups(i) ==
    IF i = 0 THEN <<>>
    ELSE ChainGroups(handlers[i].from) \o
           (IF handlers[i].group = "" THEN <<>> ELSE <<handlers[i].group>>)

\* what the root handler's Logs returns
Captured ==
    LET r == LogsCopy(heap, state.logs)
    IN  Elems(r.heap, r.slice)

\* C21: every handler derived through a chain of WithAttrs and WithGroup calls
\* holds the chain's attributes in order and the chain's group names in order,
\* whatever was derived from its parent or its siblings afterwards, and every
\* record handled through it is in the buffer the root's Logs reads, with the
\* chain's attributes followed by the record's own, and the chain's groups.
C21_ScopesKeptApart ==
    /\ \A i \in 1..Len(handlers) :
          /\ Elems(heap, handlers[i].h.attrs) = ChainAttrs(i)
          /\ Elems(heap, handlers[i].h.groups) = ChainGroups(i)
    /\ \A n \in 1..Len(Captured) :
          LET e == Captured[n]
          IN  /\ e.attrs = ChainAttrs(e.id[1]) \o RecordAttrs(e.id[2])
              /\ e.groups = ChainGroups(e.id[1])
    /\ last.op = "Handle" =>
          /\ Len(Captured) >= 1
          /\ Captured[Len(Captured)].id[1] = last.recv

\* two siblings derived by WithAttrs from a handler whose attrs array has room
\* to spare, and a record with an attribute of its own captured through the
\* elder of the two
C21_Witness ==
    \E i, j \in 1..Len(handlers) :
        /\ i < j
        /\ handlers[i].from = handlers[j].from
        /\ handlers[i].from >= 1
        /\ handlers[i].attrs # <<>> /\ handlers[j].attrs # <<>>
        /\ LET p == handlers[handlers[i].from].h.attrs
           IN  p.len < p.cap
        /\ Len(Captured) >= 1
        /\ Captured[1].id = <<i, 2>>

\* ====================================================================
\* slogpretty.PrettyHandler
\* ====================================================================
\* the handlers the configuration methods give rise to, the root included
MaxPretty == 5

\* slog.LevelDebug, LevelInfo, LevelWarn, LevelError
LevelDebug == -4
LevelInfo == 0
LevelWarn == 4
LevelError == 8
Levels == {LevelDebug, LevelInfo, LevelWarn, LevelError}
\* a slog.Leveler: a slog.Level, or the nil interface
Leveler(l) == [nil |-> FALSE, level |-> l]
NilLeveler == [nil |-> TRUE, level |-> 0]

\* log.New(w, "", 0); w = 0 is os.Stderr
LogNew(w) == [nil |-> FALSE, w |-> w]
NilLogger == [nil |-> TRUE, w |-> 0]
DefaultTimeLayout == "15:04:05"

\* NewPrettyHandler(), on a terminal or not
NewPrettyHandler(isTerminal) ==
    [Logger |-> LogNew(0), TimestampFormat |-> DefaultTimeLayout,
     Level |-> Leveler(LevelDebug), AddSource |-> FALSE,
     BaseAttrs |-> NilSlice, AttrGroups |-> NilSlice,
     EnableColor |-> isTerminal, RewriteAttrFunc |-> "nil",
     FormatAttrsFunc |-> "jsonAttrFormatter"]

\* a call on the handler H[i] returned the handler H'[res]
PrettyResult(H, A, res) == [handlers |-> H, heap |-> A, res |-> res]

\* clone as a copy of the struct alone (c := *h): the slices share their arrays
PrettyCloneShallow(H, A, i) == PrettyResult(Append(H, H[i]), A, Len(H) + 1)

\* (h *PrettyHandler) clone: a new object, BaseAttrs and AttrGroups copied
PrettyClone(H, A, i) ==
    LET a == AppendSlice(A, NilSlice, Elems(A, H[i].BaseAttrs))
        g == AppendSlice(a.heap, NilSlice, Elems(a.heap, H[i].AttrGroups))
    IN  PrettyResult(Append(H, [H[i] EXCEPT !.BaseAttrs = a.slice,
                                           !.AttrGroups = g.slice]),
                     g.heap, Len(H) + 1)

PrettyWithWriter(H, A, i, w) ==
    LET c == PrettyClone(H, A, i)
    IN  [c EXCEPT !.handlers[c.res].Logger = LogNew(w)]

PrettyWithTimeLayout(H, A, i, layout) ==
    LET c == PrettyClone(H, A, i)
    IN  [c EXCEPT !.handlers[c.res].TimestampFormat = layout]

PrettyWithLogLevel(H, A, i, l) ==
    LET c == PrettyClone(H, A, i)
    IN  [c EXCEPT !.handlers[c.res].Level = l]

PrettyWithSourceInfo(H, A, i, v) ==
    LET c == PrettyClone(H, A, i)
    IN  [c EXCEPT !.handlers[c.res].AddSource = v]

PrettyWithAttrRewriter(H, A, i, f) ==
    LET c == PrettyClone(H, A, i)
    IN  [c EXCEPT !.handlers[c.res].RewriteAttrFunc = f]

PrettyWithColorEnabled(H, A, i, enabled) ==
    LET c == PrettyClone(H, A, i)
    IN  [c EXCEPT !.handlers[c.res].EnableColor = enabled]

PrettyWithAttrFormatter(H, A, i, f) ==
    LET c == PrettyClone(H, A, i)
    IN  [c EXCEPT !.handlers[c.res].FormatAttrsFunc = f]

\* clone.BaseAttrs = append(clone.BaseAttrs, attrs...)
PrettyWithAttrs(H, A, i, attrs) ==
    LET c == PrettyClone(H, A, i)
        r == AppendSlice(c.heap, c.handlers[c.res].BaseAttrs, attrs)
    IN  PrettyResult([c.handlers EXCEPT ![c.res].BaseAttrs = r.slice], r.heap, c.res)

\* clone.AttrGroups = append(clone.AttrGroups, name)
PrettyWithGroup(H, A, i, name) ==
    LET c == PrettyClone(H, A, i)
        r == AppendSlice(c.heap, c.handlers[c.res].AttrGroups, <<name>>)
    IN  PrettyResult([c.handlers EXCEPT ![c.res].AttrGroups = r.slice], r.heap, c.res)

\* ---- the configuration calls of a program, on any handler it holds
\* the arguments the calls pass
TimeLayouts == {""}
Levelers == {Leveler(LevelWarn)}
Rewriters == {"hideSecret"}
Formatters == {"ATTRS"}

\* the call returned r: the program holds one more handler
Configured(op, i, r) ==
    /\ handlers' = r.handlers
    /\ heap' = r.heap
    /\ last' = [op |-> op, recv |-> i, res |-> r.res]
    /\ UNCHANGED <<ctxs, procs, handler, state, snaps>>

CallPrettyWithWriter ==
    /\ Len(handlers) < MaxPretty
    /\ \E i \in 1..Len(handlers) :
          Configured("WithWriter", i, PrettyWithWriter(handlers, heap, i, Len(handlers)))

CallPrettyWithTimeLayout ==
    /\ Len(handlers) < MaxPretty
    /\ \E i \in 1..Len(handlers), layout \in TimeLayouts :
          Configured("WithTimeLayout", i, PrettyWithTimeLayout(handlers, heap, i, layout))

CallPrettyWithLogLevel ==
    /\ Len(handlers) < MaxPretty
    /\ \E i \in 1..Len(handlers), l \in Levelers :
          Configured("WithLogLevel", i, PrettyWithLogLevel(handlers, heap, i, l))

CallPrettyWithSourceInfo ==
    /\ Len(handlers) < MaxPretty
    /\ \E i \in 1..Len(handlers) :
          Configured("WithSourceInfo", i,
                     PrettyWithSourceInfo(handlers, heap, i, ~handlers[i].AddSource))

CallPrettyWithAttrRewriter ==
    /\ Len(handlers) < MaxPretty
    /\ \E i \in 1..Len(handlers), f \in Rewriters :
          Configured("WithAttrRewriter", i, PrettyWithAttrRewriter(handlers, heap, i, f))

CallPrettyWithColorEnabled ==
    /\ Len(handlers) < MaxPretty
    /\ \E i \in 1..Len(handlers) :
          Configured("WithColorEnabled", i,
                     PrettyWithColorEnabled(handlers, heap, i, ~handlers[i].EnableColor))

CallPrettyWithAttrFormatter ==
    /\ Len(handlers) < MaxPretty
    /\ \E i \in 1..Len(handlers), f \in Formatters :
          Configured("WithAttrFormatter", i, PrettyWithAttrFormatter(handlers, heap, i, f))

CallPrettyWithAttrs ==
    /\ Len(handlers) < MaxPretty
    /\ \E i \in 1..Len(handlers), attrs \in Batches(Len(handlers)) :
          Configured("WithAttrs", i, PrettyWithAttrs(handlers, heap, i, attrs))

CallPrettyWithGroup ==
    /\ Len(handlers) < MaxPretty
    /\ \E i \in 1..Len(handlers) :
          Configured("WithGroup", i,
                     PrettyWithGroup(handlers, heap, i, ScopeName(Len(handlers))))

\* NewPrettyHandler() on a terminal
InitPretty ==
    /\ ctxs = <<Background>>
    /\ heap = <<>>
    /\ last = [op |-> "none", recv |-> 0, res |-> 0]
    /\ procs = <<>>
    /\ handler = NilHandler
    /\ state = NewObservedState
    /\ snaps = <<>>
    /\ handlers = <<NewPrettyHandler(TRUE)>>

NextPretty ==
    \/ CallPrettyWithWriter
    \/ CallPrettyWithTimeLayout
    \/ CallPrettyWithLogLevel
    \/ CallPrettyWithSourceInfo
    \/ CallPrettyWithAttrRewriter
    \/ CallPrettyWithColorEnabled
    \/ CallPrettyWithAttrFormatter
    \/ CallPrettyWithAttrs
    \/ CallPrettyWithGroup

SpecPretty == InitPretty /\ [][NextPretty]_vars

\* ---- C23
\* every field of the handler H[i], the slices with the elements they hold
PrettyFields(H, A, i) ==
    [h |-> H[i], attrs |-> Elems(A, H[i].BaseAttrs), groups |-> Elems(A, H[i].AttrGroups)]

\* C23: every configuration call returns a handler that is not one of those
\* held before it, and every handler held before it (the receiver, its parent,
\* its siblings) has every field as it was, the elements of BaseAttrs and
\* AttrGroups included.
C23_ConfigurationCopies ==
    [][/\ Len(handlers') = Len(handlers) + 1
       /\ last'.res = Len(handlers) + 1
       /\ \A i \in 1..Len(handlers) :
             PrettyFields(handlers', heap', i) = PrettyFields(handlers, heap, i)]_vars

\* two handlers derived by WithAttrs from a common parent whose BaseAttrs
\* array has room to spare, the second derived after the first
C23_Witness ==
    /\ last.op = "WithAttrs"
    /\ handlers[last.recv].BaseAttrs.len < handlers[last.recv].BaseAttrs.cap
    /\ \E j \in 1..(Len(handlers) - 1) :
          /\ j # last.recv
          /\ handlers[j].BaseAttrs.len > handlers[last.recv].BaseAttrs.len
          /\ \A n \in 1..handlers[last.recv].BaseAttrs.len :
                Elems(heap, handlers[j].BaseAttrs)[n] =
                   Elems(heap, handlers[last.recv].BaseAttrs)[n]
          /\ Elems(heap, handlers[j].BaseAttrs) # Elems(heap, handlers[last.res].BaseAttrs)

\* ====================================================================
\* slogpretty.PrettyHandler: Enabled and Handle, through a slog.Logger
\* ====================================================================
\* slog.String(k, s), slog.Group(k, attrs...), slog.Attr{}
StringAttr(k, str) == [key |-> k, value |-> [kind |-> "String", str |-> str, num |-> 0]]
GroupAttr(k, attrs) == [key |-> k, value |-> [kind |-> "Group", str |-> "", num |-> 0, group |-> attrs]]
EmptyAttr == [key |-> "", value |-> [kind |-> "Any", str |-> "", num |-> 0]]

\* the RewriteAttrFunc of the tests: the attribute "secret" becomes slog.Attr{}
HideSecret(groups, a) == IF a.key = "secret" THEN EmptyAttr ELSE a

\* replace(groups, a) for the functions a handler is given; "nil" is no function
Replace(f, groups, a) == IF f = "hideSecret" THEN HideSecret(groups, a) ELSE a

\* map[string]any{}, and out[k] = v
EmptyMap == [k \in {} |-> NilVal]
MapSet(out, k, v) == (k :> v) @@ out

\* flattenAttrs' loop that skips an attribute the function turned into slog.Attr{}
RECURSIVE FlattenSkipEmpty(_, _, _, _, _)
FlattenSkipEmpty(attrs, groups, replace, out, i) ==
    IF i > Len(attrs) THEN out
    ELSE LET a == Replace(replace, groups, attrs[i])
         IN  FlattenSkipEmpty(attrs, groups, replace,
                IF a = EmptyAttr THEN out
                ELSE IF a.value.kind = "Group"
                THEN MapSet(out, a.key,
                            [kind |-> "Map",
                             map |-> FlattenSkipEmpty(a.value.group, Append(groups, a.key),
                                                      replace, EmptyMap, 1)])
                ELSE MapSet(out, a.key, a.value),
                i + 1)

\* flattenAttrs: for _, a := range attrs { ... out[a.Key] = ... }, from attrs[i] on
RECURSIVE FlattenAttrs(_, _, _, _, _)
FlattenAttrs(attrs, groups, replace, out, i) ==
    IF i > Len(attrs) THEN out
    ELSE LET a == Replace(replace, groups, attrs[i])
         IN  FlattenAttrs(attrs, groups, replace,
                IF a.value.kind = "Group"
                THEN MapSet(out, a.key,
                            [kind |-> "Map",
                             map |-> FlattenAttrs(a.value.group, Append(groups, a.key),
                                                  replace, EmptyMap, 1)])
                ELSE MapSet(out, a.key, a.value),
                i + 1)

\* for i := len(h.AttrGroups) - 1; i >= 0; i-- { m = map[string]any{h.AttrGroups[i]: m} }
RECURSIVE NestGroups(_, _, _)
NestGroups(groups, m, i) ==
    IF i < 1 THEN m
    ELSE NestGroups(groups, MapSet(EmptyMap, groups[i], [kind |-> "Map", map |-> m]), i - 1)

\* FormatAttrsFunc(m): jsonAttrFormatter gives the JSON text of m, which tells
\* the maps apart; the formatter of the tests gives "ATTRS" for every map
FormatAttrs(f, m) ==
    IF f = "jsonAttrFormatter" THEN [by |-> f, map |-> m] ELSE [by |-> f, map |-> EmptyMap]

NoAttrsPart == [shown |-> FALSE, flat |-> EmptyMap, text |-> FormatAttrs("", EmptyMap)]

\* (h *PrettyHandler) renderAttrs: the record's attributes, then BaseAttrs
RenderAttrs(A, h, r) ==
    LET attrs == r.attrs \o Elems(A, h.BaseAttrs)
        groups == Elems(A, h.AttrGroups)
        m == FlattenAttrs(attrs, groups, h.RewriteAttrFunc, EmptyMap, 1)
    IN  IF DOMAIN m = {} THEN NoAttrsPart
        ELSE [shown |-> TRUE, flat |-> m,
              text |-> FormatAttrs(h.FormatAttrsFunc, NestGroups(groups, m, Len(groups)))]

\* Enabled with the comparison the wrong way about the bound
PrettyEnabledAbove(h, l) ==
    IF h.Level.nil THEN [ok |-> FALSE, fault |-> TRUE]
    ELSE [ok |-> l > h.Level.level, fault |-> FALSE]

\* (h *PrettyHandler) Enabled: l.Level() >= h.Level.Level(); a nil Leveler panics
PrettyEnabled(h, l) ==
    IF h.Level.nil THEN [ok |-> FALSE, fault |-> TRUE]
    ELSE [ok |-> l >= h.Level.level, fault |-> FALSE]

\* (h *PrettyHandler) Handle: the line it prints, by its parts, and the error
PrettyHandle(A, h, r) ==
    IF h.Logger.nil THEN [err |-> "logger is not initialized", written |-> <<>>]
    ELSE [err |-> NoError,
          written |-> <<[w |-> h.Logger.w,
                         time |-> h.TimestampFormat,
                         level |-> r.level,
                         msg |-> r.msg,
                         attrs |-> RenderAttrs(A, h, r),
                         source |-> h.AddSource /\ r.pc # 0,
                         color |-> h.EnableColor]>>]

\* logger.Log(ctx, level, msg, attrs...) of a slog.Logger built on h: Handle is
\* called when Enabled says so
LoggerLog(A, h, r) ==
    LET e == PrettyEnabled(h, r.level)
    IN  IF e.fault THEN [ok |-> FALSE, fault |-> TRUE, err |-> NoError, written |-> <<>>]
        ELSE IF ~e.ok THEN [ok |-> FALSE, fault |-> FALSE, err |-> NoError, written |-> <<>>]
        ELSE LET x == PrettyHandle(A, h, r)
             IN  [ok |-> TRUE, fault |-> FALSE, err |-> x.err, written |-> x.written]

\* ---- the inputs
Secret == StringAttr("secret", "xxx")
Visible == StringAttr("visible", "ok")
Request == GroupAttr("req", <<Secret, Visible>>)
LoggedAttrs == {Secret, Visible, Request}
\* the attributes of one logging call, at most two
AttrLists == {<<>>} \cup {<<a>> : a \in LoggedAttrs} \cup {<<a, b>> : a, b \in LoggedAttrs}
\* the attributes of logger.With
BaseAttrLists == {<<>>, <<StringAttr("base", "b")>>, <<Secret>>}
AllLevelers == {Leveler(l) : l \in Levels} \cup {NilLeveler}
AllRewriters == {"nil", "hideSecret"}
AllFormatters == {"jsonAttrFormatter", "ATTRS"}
\* the handler the logger is built on: the one the chain of calls returned
Built == Len(handlers)

NoPrettyCall ==
    [op |-> "none", level |-> 0, attrs |-> <<>>, ok |-> FALSE, fault |-> FALSE,
     err |-> NoError, written |-> <<>>]

\* h.Enabled(ctx, l)
CallPrettyEnabled ==
    /\ last.op = "none"
    /\ \E l \in Levels :
          LET e == PrettyEnabled(handlers[Built], l)
          IN  last' = [NoPrettyCall EXCEPT !.op = "Enabled", !.level = l,
                                           !.ok = e.ok, !.fault = e.fault]
    /\ UNCHANGED <<ctxs, heap, procs, handler, state, snaps, handlers>>

\* logger.Debug, Info, Warn, Error(msg, attrs...)
CallLoggerLog ==
    /\ last.op = "none"
    /\ \E l \in Levels, attrs \in AttrLists :
          LET x == LoggerLog(heap, handlers[Built],
                             [level |-> l, msg |-> "msg", attrs |-> attrs, pc |-> 1])
          IN  last' = [NoPrettyCall EXCEPT !.op = "Log", !.level = l, !.attrs = attrs,
                                           !.ok = x.ok, !.fault = x.fault,
                                           !.err = x.err, !.written = x.written]
    /\ UNCHANGED <<ctxs, heap, procs, handler, state, snaps, handlers>>

\* h.Handle(ctx, r), for a record built by hand: no program counter
CallPrettyHandle ==
    /\ last.op = "none"
    /\ \E l \in Levels, attrs \in AttrLists :
          LET x == PrettyHandle(heap, handlers[Built],
                                [level |-> l, msg |-> "msg", attrs |-> attrs, pc |-> 0])
          IN  last' = [NoPrettyCall EXCEPT !.op = "Handle", !.level = l, !.attrs = attrs,
                                           !.ok = TRUE,
                                           !.err = x.err, !.written = x.written]
    /\ UNCHANGED <<ctxs, heap, procs, handler, state, snaps, handlers>>

\* the program goes on after a call returned
PrettyResume ==
    /\ last.op # "none"
    /\ last' = NoPrettyCall
    /\ UNCHANGED <<ctxs, heap, procs, handler, state, snaps, handlers>>

\* NewPrettyHandler().WithWriter(&buf).WithColorEnabled(c).WithTimeLayout(t).
\* WithLogLevel(l).WithAttrRewriter(f).WithAttrFormatter(g), then the logger's
\* With(base...) and WithGroup("grp") when the program calls them
InitPrettyLog ==
    /\ ctxs = <<Background>>
    /\ last = NoPrettyCall
    /\ procs = <<>>
    /\ handler = NilHandler
    /\ state = NewObservedState
    /\ snaps = <<>>
    /\ \E c \in BOOLEAN, t \in {"", DefaultTimeLayout}, l \in AllLevelers,
          f \in AllRewriters, g \in AllFormatters, base \in BaseAttrLists,
          grouped \in BOOLEAN :
          \E r1 \in {PrettyWithWriter(<<NewPrettyHandler(TRUE)>>, <<>>, 1, 1)} :
          \E r2 \in {PrettyWithColorEnabled(r1.handlers, r1.heap, r1.res, c)} :
          \E r3 \in {PrettyWithTimeLayout(r2.handlers, r2.heap, r2.res, t)} :
          \E r4 \in {PrettyWithLogLevel(r3.handlers, r3.heap, r3.res, l)} :
          \E r5 \in {PrettyWithAttrRewriter(r4.handlers, r4.heap, r4.res, f)} :
          \E r6 \in {PrettyWithAttrFormatter(r5.handlers, r5.heap, r5.res, g)} :
          \E r7 \in {IF base = <<>> THEN r6
                      ELSE PrettyWithAttrs(r6.handlers, r6.heap, r6.res, base)} :
          \E r8 \in {IF ~grouped THEN r7
                      ELSE PrettyWithGroup(r7.handlers, r7.heap, r7.res, "grp")} :
              /\ handlers = r8.handlers
              /\ heap = r8.heap

NextPrettyLog ==
    \/ CallPrettyEnabled
    \/ CallLoggerLog
    \/ CallPrettyHandle
    \/ PrettyResume

SpecPrettyLog == InitPrettyLog /\ [][NextPrettyLog]_vars

\* ---- C22
\* C22: Enabled(ctx, l) returns true exactly when l is at least the handler's
\* minimum level (and panics exactly when the handler has a nil Leveler), so a
\* record logged through a logger built on the handler is written if and only
\* if the handler has a minimum level and the record's level is at least it.
C22_LevelFilter ==
    LET h == handlers[Built]
    IN  /\ last.op = "Enabled" =>
              /\ last.fault <=> h.Level.nil
              /\ ~last.fault => (last.ok <=> last.level >= h.Level.level)
        /\ last.op = "Log" =>
              /\ last.fault <=> h.Level.nil
              /\ Len(last.written) = 1 <=> (~h.Level.nil /\ last.level >= h.Level.level)
              /\ Len(last.written) <= 1
              /\ \A n \in 1..Len(last.written) :
                    last.written[n].level = last.level /\ last.written[n].w = h.Logger.w

\* a record at exactly the minimum level is written, the minimum being above
\* the default one
C22_Witness ==
    /\ last.op = "Log"
    /\ ~handlers[Built].Level.nil
    /\ handlers[Built].Level.level = LevelWarn
    /\ last.level = LevelWarn
    /\ Len(last.written) = 1

\* ---- C24
\* the attributes of the list that the function does not turn into slog.Attr{}
Unfiltered(attrs, replace, groups) ==
    {i \in 1..Len(attrs) : Replace(replace, groups, attrs[i]) # EmptyAttr}

\* C24: when the function set by WithAttrRewriter maps an attribute to
\* slog.Attr{}, the attribute contributes no entry to the map that is formatted
\* and written, and the attributes the function returns unchanged are in it
\* with their key and value: the map is the one built from those alone.
C24_EmptyAttrFilteredOut ==
    last.op \in {"Log", "Handle"} =>
        \A n \in 1..Len(last.written) :
            LET h == handlers[Built]
                attrs == last.attrs \o Elems(heap, h.BaseAttrs)
            IN  last.written[n].attrs.flat =
                   FlattenSkipEmpty(attrs, Elems(heap, h.AttrGroups),
                                    h.RewriteAttrFunc, EmptyMap, 1)

\* ====================================================================
\* The carrier bound in the contexts of the slice-based slogctx
\* ====================================================================
\* ---- C25
\* C25: in every context built by WithValues, WithUniqueValues, WithoutKeys and
\* WithoutAllKeys calls, no field of the bound carrier has the empty string as
\* its key.
C25_NoEmptyKeyBound ==
    \A c \in 1..Len(ctxs) :
        /\ \A i \in 1..Len(Carrier(c)) : Carrier(c)[i].key # ""
        /\ ctxs[c].val.ptr =>
              \A i \in 1..ctxs[c].val.slice.len :
                  Elems(heap, ctxs[c].val.slice)[i].key # ""

\* a batch with an empty key next to a valid pair was bound: only the valid
\* pair is in the carrier
C25_Witness ==
    /\ IsAdd
    /\ ~last.fault
    /\ last.res # last.ctx
    /\ \E j \in 1..Len(AllPairs(last.args)) : AllPairs(last.args)[j].k = StrVal("")
    /\ Len(Carrier(last.res)) = Len(last.pre) + 1

\* ---- C26
\* C26: the value bound under the private key is, in every context, absent,
\* nil, or a carrier with at least one field; a carrier with no field is never
\* bound.
C26_NoEmptyCarrierBound ==
    \A c \in 1..Len(ctxs) :
        /\ ctxs[c].val.ptr => ctxs[c].val.slice.len >= 1
        /\ LET v == CtxValue(ctxs, c, contextKeyFields)
           IN  v = NilAny \/ (v.ptr /\ v.slice.len >= 1)

\* WithoutKeys removed every field of a context: nil is bound, not an empty
\* carrier
C26_Witness ==
    /\ last.op = "WithoutKeys"
    /\ last.pre # <<>>
    /\ ~last.fault
    /\ last.res # last.ctx
    /\ ctxs[last.res].val = NilAny
    /\ ctxs[ctxs[last.res].parent].val.ptr

\* ====================================================================
\* Contexts derived from a context that already has fields: clearing it and
\* adding to the cleared context
\* ====================================================================
\* the contexts of a chain, Background included
MaxChain == 4

\* WithValues or WithUniqueValues on a context derived so far
ChainAdd ==
    /\ Idle
    /\ Len(ctxs) < MaxChain
    /\ \E ctx \in 1..Len(ctxs), args \in ConcArgLists(Len(ctxs)), unique \in BOOLEAN :
          LET r == IF unique THEN WithUniqueValues(ctxs, heap, ctx, args)
                   ELSE WithValues(ctxs, heap, ctx, args)
          IN  /\ ctxs' = r.ctxs
              /\ heap' = r.heap
              /\ last' = [NoCall EXCEPT !.op = IF unique THEN "WithUniqueValues"
                                              ELSE "WithValues",
                                        !.ctx = ctx, !.pre = Carrier(ctx), !.args = args,
                                        !.res = r.res, !.fault = r.fault]
    /\ UNCHANGED <<procs, handler, state, snaps, handlers>>

\* WithoutKeys on a context derived so far
ChainWithoutKeys ==
    /\ Idle
    /\ Len(ctxs) < MaxChain
    /\ \E ctx \in 1..Len(ctxs), keys \in KeyLists :
          LET r == WithoutKeys(ctxs, heap, ctx, keys)
          IN  /\ ctxs' = r.ctxs
              /\ heap' = r.heap
              /\ last' = [NoCall EXCEPT !.op = "WithoutKeys", !.ctx = ctx,
                                        !.pre = Carrier(ctx), !.keys = keys,
                                        !.res = r.res, !.fault = r.fault]
    /\ UNCHANGED <<procs, handler, state, snaps, handlers>>

\* WithoutAllKeys on a context derived so far
ChainWithoutAllKeys ==
    /\ Idle
    /\ Len(ctxs) < MaxChain
    /\ \E ctx \in 1..Len(ctxs) :
          LET r == WithoutAllKeys(ctxs, heap, ctx)
          IN  /\ ctxs' = r.ctxs
              /\ heap' = r.heap
              /\ last' = [NoCall EXCEPT !.op = "WithoutAllKeys", !.ctx = ctx,
                                        !.pre = Carrier(ctx),
                                        !.res = r.res, !.fault = r.fault]
    /\ UNCHANGED <<procs, handler, state, snaps, handlers>>

\* ctx := WithValues(context.Background(), args...) with at least one field
InitChain ==
    /\ last = NoCall
    /\ procs = [g \in 1..NProcs |-> NotStarted]
    /\ handler = NewHandler(Sink(<<>>))
    /\ state = NewObservedState
    /\ snaps = <<>>
    /\ handlers = <<>>
    /\ \E args \in ArgLists(1) :
          LET r == WithValues(<<Background>>, <<>>, BackgroundId, args)
          IN  /\ r.res # BackgroundId
              /\ ctxs = r.ctxs
              /\ heap = r.heap

NextChain ==
    \/ ChainAdd
    \/ ChainWithoutKeys
    \/ ChainWithoutAllKeys
    \/ Resume

SpecChain == InitChain /\ [][NextChain]_vars

\* ---- C27
\* context c is what a clearing call returned: WithoutAllKeys, or a WithoutKeys
\* that removed every field
ClearedBy(c) ==
    /\ ctxs[c].kind = "value"
    /\ ctxs[c].origin \in {"WithoutAllKeys", "WithoutKeys"}
    /\ ctxs[c].val = NilAny

\* C27: a WithValues or WithUniqueValues call on a context that a clearing
\* call returned yields a carrier made of the valid pairs of its arguments
\* alone: lookups find those and nothing else, and a handled record gets those
\* attributes and no field of the cleared context or of its ancestors.
C27_ClearingShadowsAncestors ==
    (IsAdd /\ last.ctx # 0 /\ ClearedBy(last.ctx)) =>
        /\ ~last.fault
        /\ Carrier(last.res) = ValidFields(last.args)
        /\ \A key \in Keys :
              /\ HasKey(ctxs, heap, last.res, key).ok <=> key \in KeysOf(ValidFields(last.args))
              /\ GetFirstValue(ctxs, heap, last.res, key).ok
                    <=> key \in KeysOf(ValidFields(last.args))
        /\ \A attrs \in CallSiteAttrs :
              Handle(ctxs, heap, last.res, attrs) =
                 [rec |-> attrs \o AttrsOf(ValidFields(last.args)), fault |-> FALSE]

\* a field was added under key "b" to a context cleared of the fields "a" and
\* "b" its parent had
C27_Witness ==
    /\ IsAdd
    /\ last.ctx # 0
    /\ ClearedBy(last.ctx)
    /\ KeysOf(Carrier(ctxs[last.ctx].parent)) = {"a", "b"}
    /\ KeysOf(ValidFields(last.args)) = {"b"}
    /\ last.res # last.ctx
    /\ Len(Carrier(last.res)) = 1

\* ====================================================================
\* The sync.Map-based slogctx: contexts derived with WithValues and records
\* handled with them
\* ====================================================================
\* the contexts derived, Background included
MaxMapCtx == 4

\* WithValues(ctx, args...)
CallMapWithValues ==
    /\ Idle
    /\ Len(ctxs) < MaxMapCtx
    /\ \E ctx \in CtxIds, args \in ConcArgLists(Len(ctxs)) :
          LET r == MapWithValues(ctxs, heap, ctx, args)
          IN  /\ ctxs' = r.ctxs
              /\ heap' = r.heap
              /\ last' = [NoCall EXCEPT !.op = "MapWithValues", !.ctx = ctx, !.args = args,
                                        !.res = r.res, !.fault = r.fault]
    /\ UNCHANGED <<procs, handler, state, snaps, handlers>>

\* logger.InfoContext(ctx, msg, attrs...) through the Handler
CallMapHandle ==
    /\ Idle
    /\ \E ctx \in CtxIds, attrs \in CallSiteAttrs :
       \E order \in Orders(Len(MapEntries(ctxs, heap, ctx))) :
          LET r == MapHandlerHandle(ctxs, heap, handler, ctx, attrs, order, NoError)
          IN  last' = [NoCall EXCEPT !.op = "Handle", !.recv = handler, !.ctx = ctx,
                                     !.attrs = attrs, !.to = r.to, !.rec = r.rec,
                                     !.err = r.err, !.fault = r.fault]
    /\ UNCHANGED <<ctxs, heap, procs, handler, state, snaps, handlers>>

\* the key WithLog binds the logger under
keyLogger == "slog_logger"
\* a non-nil *slog.Logger, and slog.Default()
Logger(name) == [ptr |-> TRUE, logger |-> name]
DefaultLogger == Logger("default")
Loggers == {Logger("l1"), Logger("l2")}
\* v, ok := x.(*slog.Logger)
IsLogger(v) == "logger" \in DOMAIN v

\* WithLog(ctx, logger)
WithLog(cs, A, ctx, logger) ==
    IF ctx = 0 THEN Panicked(cs, A)   \* "cannot create context from nil parent"
    ELSE Returned(Append(cs, [kind |-> "value", parent |-> ctx, key |-> keyLogger,
                              val |-> logger, origin |-> "WithLog"]),
                  A, Len(cs) + 1)

\* Log(ctx): the logger it returns; a nil ctx is a nil-interface method call
Log(cs, ctx) ==
    IF ctx = 0 THEN [val |-> DefaultLogger, fault |-> TRUE]
    ELSE LET v == CtxValue(cs, ctx, keyFields)
         IN  IF IsLogger(v) THEN [val |-> v, fault |-> FALSE]
             ELSE [val |-> DefaultLogger, fault |-> FALSE]

\* ctx = WithLog(ctx, logger)
CallWithLog ==
    /\ Idle
    /\ Len(ctxs) < MaxMapCtx
    /\ \E ctx \in CtxIds, logger \in Loggers :
          LET r == WithLog(ctxs, heap, ctx, logger)
          IN  /\ ctxs' = r.ctxs
              /\ heap' = r.heap
              /\ last' = [NoCall EXCEPT !.op = "WithLog", !.ctx = ctx, !.val = logger,
                                        !.res = r.res, !.fault = r.fault]
    /\ UNCHANGED <<procs, handler, state, snaps, handlers>>

\* Log(ctx)
CallLog ==
    /\ Idle
    /\ \E ctx \in CtxIds :
          LET r == Log(ctxs, ctx)
          IN  last' = [NoCall EXCEPT !.op = "Log", !.ctx = ctx, !.val = r.val,
                                     !.fault = r.fault]
    /\ UNCHANGED <<ctxs, heap, procs, handler, state, snaps, handlers>>

\* slog.New(NewHandler(sink)), and no context derived yet
InitMap ==
    /\ ctxs = <<Background>>
    /\ heap = <<>>
    /\ last = NoCall
    /\ procs = [g \in 1..NProcs |-> NotStarted]
    /\ handler = MapNewHandler(Sink(<<>>))
    /\ state = NewObservedState
    /\ snaps = <<>>
    /\ handlers = <<>>

NextMap ==
    \/ CallMapWithValues
    \/ CallMapHandle
    \/ CallWithLog
    \/ CallLog
    \/ Resume

SpecMap == InitMap /\ [][NextMap]_vars

\* ---- C28
\* the attributes Handle adds to a record logged with context c
MapEmitted(cs, A, c) ==
    LET es == MapEntries(cs, A, c)
    IN  {SlogAny(es[i].key.str, es[i].val) :
            i \in {j \in 1..Len(es) : es[j].key.typ = "string"}}

\* C28: deriving a context with WithValues leaves the set of attributes
\* emitted with every context derived before (the parent it was derived from,
\* and the parent's other children) as it was.
C28_MapDerivationsApart ==
    [][\A c \in 1..Len(ctxs) :
          MapEmitted(ctxs', heap', c) = MapEmitted(ctxs, heap, c)]_vars

\* ====================================================================
\* pretty.Handler, the handler with value receivers: scoping
\* ====================================================================
\* NewHandler(): Attrs and Groups are nil
NewValueHandler == [Attrs |-> NilSlice, Groups |-> NilSlice]

\* (h Handler) WithAttrs: h.Attrs = append(h.Attrs, attrs...) on the copy h of
\* the receiver, whose slices are the receiver's
ValueWithAttrs(A, h, attrs) ==
    LET r == AppendSlice(A, h.Attrs, attrs)
    IN  [heap |-> r.heap, res |-> [h EXCEPT !.Attrs = r.slice]]

\* (h Handler) WithGroup: h.Groups = append(h.Groups, name)
ValueWithGroup(A, h, name) ==
    LET r == AppendSlice(A, h.Groups, <<name>>)
    IN  [heap |-> r.heap, res |-> [h EXCEPT !.Groups = r.slice]]

\* logger.With(attrs...) on any handler derived so far
CallValueWithAttrs ==
    /\ Len(handlers) < MaxHandlers
    /\ \E i \in 1..Len(handlers), attrs \in Batches(Len(handlers)) :
          LET r == ValueWithAttrs(heap, handlers[i].h, attrs)
          IN  /\ heap' = r.heap
              /\ handlers' = Append(handlers, Derived(r.res, i, attrs, ""))
    /\ UNCHANGED <<ctxs, last, procs, handler, state, snaps>>

\* logger.WithGroup(name) on any handler derived so far
CallValueWithGroup ==
    /\ Len(handlers) < MaxHandlers
    /\ \E i \in 1..Len(handlers) :
          LET name == ScopeName(Len(handlers))
              r == ValueWithGroup(heap, handlers[i].h, name)
          IN  /\ heap' = r.heap
              /\ handlers' = Append(handlers, Derived(r.res, i, <<>>, name))
    /\ UNCHANGED <<ctxs, last, procs, handler, state, snaps>>

\* slog.New(pretty.NewHandler())
InitValue ==
    /\ ctxs = <<Background>>
    /\ heap = <<>>
    /\ last = NoScopeCall
    /\ procs = <<>>
    /\ handler = NilHandler
    /\ state = NewObservedState
    /\ snaps = <<>>
    /\ handlers = <<Derived(NewValueHandler, 0, <<>>, "")>>

NextValue ==
    \/ CallValueWithAttrs
    \/ CallValueWithGroup

SpecValue == InitValue /\ [][NextValue]_vars

\* ---- C29
\* C29: every handler derived by WithAttrs and WithGroup keeps the attributes
\* and groups of its own chain, whatever is derived afterwards from its
\* ancestors: a = p.WithAttrs(x) holds p's attributes and then x, also after
\* b = p.WithAttrs(y) was derived; likewise for Groups.
C29_DerivedValuesKeepScope ==
    \A i \in 1..Len(handlers) :
        /\ Elems(heap, handlers[i].h.Attrs) = ChainAttrs(i)
        /\ Elems(heap, handlers[i].h.Groups) = ChainGroups(i)

\* ---- C30
\* the logger WithLog stored nearest to context c, none when the chain has none
StoredLogger(c) == CtxValue(ctxs, c, keyLogger)

\* C30: Log returns the logger that WithLog stored in the context (the nearest
\* one of the chain, so Log(WithLog(ctx, l)) is l), and slog.Default() only when
\* the chain holds no logger.
C30_LogReturnsStoredLogger ==
    (last.op = "Log" /\ ~last.fault) =>
        IF IsLogger(StoredLogger(last.ctx))
        THEN last.val = StoredLogger(last.ctx)
        ELSE last.val = DefaultLogger
====
